---- MODULE Spec2Model ----
(***************************************************************************)
(* A model of the XCacheSystem cache engines: the LRU primitive            *)
(* (XLRUCache.h), the LFU engine with aging (XLFUCache.h), the W-TinyLFU   *)
(* engine with its Count-Min Sketch (XWTinyLFUCache.h), the ARC engine     *)
(* (XArcCache/*.h), the LRU-K promoter (XLRUCache.h) and the adaptive      *)
(* coordinator (XAdaptiveCache.h).                                         *)
(*                                                                         *)
(* One behaviour of the model follows ONE engine instance: `engine` names  *)
(* its kind and is fixed by Init, like the constructor arguments.  In the  *)
(* single-threaded specifications one public call is one action.  In the   *)
(* two-thread specifications of the ARC and LRU-K engines, whose put and   *)
(* get hold no lock for their whole length, one action is one locked (or   *)
(* unlocked) call into a part of the engine, and `threads` holds the       *)
(* position and the locals of each thread.  A linked list is modelled by   *)
(* the sequence of its nodes between the two sentinels, a hash index by    *)
(* lookups in that sequence (or by a function where the code lets the two  *)
(* drift apart).                                                           *)
(***************************************************************************)
EXTENDS Integers, Sequences, FiniteSets, TLC

VARIABLES engine, lru, lfu, wt, arc, lruk, lastOp, left, recency, scen,
          sketch, adaptive, threads

vars == <<engine, lru, lfu, wt, arc, lruk, lastOp, left, recency, scen,
          sketch, adaptive, threads>>

\* `left` is the number of calls the model still explores in this behaviour
\* (0 and unused for the LRU engine, whose state space is finite by itself).

---------------------------------------------------------------------------
(* Bounds of the model and the program's constants.                        *)

MaxKey == 2
MaxCap == 2
MaxStepsWT == 5
MaxStepsLFU == 5
MaxStepsARC == 6
MaxStepsLRUK == 4
MaxFillCap == 3
MaxColdCount == 3
MaxStepsAdaptive == 4
MaxStepsThreads == 3
MaxCallsWT == 3

Keys == 0..MaxKey
Capacities == 0..MaxCap

\* Two values tell an updated entry from a stale one.
Values == {1, 2}

\* Key{} and Value{}: the value-initialised key and value.
DefaultKey == 0
DefaultValue == 0

\* The state of an engine this behaviour is not about.
Idle == [idle |-> TRUE]

---------------------------------------------------------------------------
(* Sequence helpers.                                                       *)

RemoveAt(s, i) == [j \in 1..(Len(s) - 1) |-> IF j < i THEN s[j] ELSE s[j + 1]]

KeysOf(s) == {s[i].key : i \in 1..Len(s)}

\* Position of the node with the given key (0 when there is none).
IndexOf(s, key) ==
  IF \E i \in 1..Len(s) : s[i].key = key
  THEN CHOOSE i \in 1..Len(s) : s[i].key = key
  ELSE 0

---------------------------------------------------------------------------
(* XLRUCache<Key, Value>.  State: capacity, and the list of nodes from     *)
(* dummyHead (least recent) to dummyTail (most recent).  nodeMap holds     *)
(* exactly the keys of the listed nodes.                                   *)

LRU_new(capacity) == [capacity |-> capacity, list |-> <<>>]

LRU_has(c, key) == key \in KeysOf(c.list)

LRU_size(c) == Cardinality(KeysOf(c.list))

LRU_getOldestKey(c) ==
  IF Len(c.list) > 0 THEN c.list[1].key ELSE DefaultKey

\* insertNode: link the node before dummyTail.
LRU_insertNode(list, node) == Append(list, node)

\* removeNode: unlink the node.
LRU_removeNode(list, key) ==
  IF IndexOf(list, key) = 0 THEN list ELSE RemoveAt(list, IndexOf(list, key))

\* Mutant: a touched node keeps its place in the list.
LRU_moveToMostRecent_Stay(list, key) == list

LRU_moveToMostRecent(list, key) ==
  LET node == list[IndexOf(list, key)]
  IN LRU_insertNode(LRU_removeNode(list, key), node)

\* Mutant: an update moves the node but keeps the old value.
LRU_updateExistingNode_Stale(c, key, value) ==
  [c EXCEPT !.list = LRU_moveToMostRecent(c.list, key)]

LRU_updateExistingNode(c, key, value) ==
  LET i == IndexOf(c.list, key)
      set == [c.list EXCEPT ![i].value = value]
  IN [c EXCEPT !.list = LRU_moveToMostRecent(set, key)]

\* evictLeastRecent: unlink dummyHead->next and erase its key.
LRU_evictLeastRecent(c) ==
  IF Len(c.list) = 0 THEN c ELSE [c EXCEPT !.list = Tail(c.list)]

\* Mutant: the full test is > instead of >=, so a full cache does not evict.
LRU_addNewNode_Late(c, key, value) ==
  LET room == IF LRU_size(c) > c.capacity THEN LRU_evictLeastRecent(c) ELSE c
  IN [room EXCEPT !.list = LRU_insertNode(room.list, [key |-> key, value |-> value])]

LRU_addNewNode(c, key, value) ==
  LET room == IF LRU_size(c) >= c.capacity THEN LRU_evictLeastRecent(c) ELSE c
  IN [room EXCEPT !.list = LRU_insertNode(room.list, [key |-> key, value |-> value])]

\* Mutant: put does not test the capacity.
LRU_put_Unguarded(c, key, value) ==
  IF LRU_has(c, key) THEN LRU_updateExistingNode(c, key, value)
  ELSE LRU_addNewNode(c, key, value)

LRU_put(c, key, value) ==
  IF c.capacity <= 0 THEN c
  ELSE IF LRU_has(c, key) THEN LRU_updateExistingNode(c, key, value)
  ELSE LRU_addNewNode(c, key, value)

\* bool get(Key, Value&): `value` is the out-parameter's content at the call.
LRU_get(c, key, value) ==
  IF LRU_has(c, key)
  THEN [c |-> [c EXCEPT !.list = LRU_moveToMostRecent(c.list, key)],
        hit |-> TRUE,
        value |-> c.list[IndexOf(c.list, key)].value]
  ELSE [c |-> c, hit |-> FALSE, value |-> value]

\* Value get(Key): the value found, Value{} on a miss.
LRU_getValue(c, key) == LRU_get(c, key, DefaultValue)

\* Mutant: remove unlinks the least recent node, whatever its key.
LRU_remove_Oldest(c, key) ==
  IF LRU_has(c, key) THEN [c EXCEPT !.list = Tail(c.list)] ELSE c

LRU_remove(c, key) ==
  IF LRU_has(c, key) THEN [c EXCEPT !.list = LRU_removeNode(c.list, key)] ELSE c

---------------------------------------------------------------------------
(* What the model records about the last public call.                      *)

Op(op, key, value, hit, out, preSize, preHas) ==
  [op |-> op, key |-> key, value |-> value, hit |-> hit, out |-> out,
   preSize |-> preSize, preHas |-> preHas]

NoOp == Op("none", DefaultKey, DefaultValue, FALSE, DefaultValue, 0, FALSE)

\* The resident keys in the order of their last access (put, update or hit).
Touch(rec, key) == Append(SelectSeq(rec, LAMBDA k : k # key), key)

Resident(rec, keys) == SelectSeq(rec, LAMBDA k : k \in keys)

---------------------------------------------------------------------------
(* The LRU engine's public calls.                                          *)

LruPut(key, value) ==
  /\ engine = "LRU"
  /\ lru' = LRU_put(lru, key, value)
  /\ lastOp' = Op("put", key, value, FALSE, DefaultValue,
                  LRU_size(lru), LRU_has(lru, key))
  /\ recency' = Resident(IF lru.capacity <= 0 THEN recency ELSE Touch(recency, key),
                         KeysOf(lru'.list))
  /\ UNCHANGED <<engine, lfu, wt, arc, lruk, left, scen,
                 sketch, adaptive, threads>>

LruGet(key) ==
  /\ engine = "LRU"
  /\ LET r == LRU_get(lru, key, DefaultValue)
     IN /\ lru' = r.c
        /\ lastOp' = Op("get", key, DefaultValue, r.hit, r.value,
                        LRU_size(lru), LRU_has(lru, key))
        /\ recency' = IF r.hit THEN Touch(recency, key) ELSE recency
  /\ UNCHANGED <<engine, lfu, wt, arc, lruk, left, scen,
                 sketch, adaptive, threads>>

LruRemove(key) ==
  /\ engine = "LRU"
  /\ lru' = LRU_remove(lru, key)
  /\ lastOp' = Op("remove", key, DefaultValue, FALSE, DefaultValue,
                  LRU_size(lru), LRU_has(lru, key))
  /\ recency' = Resident(recency, KeysOf(lru'.list))
  /\ UNCHANGED <<engine, lfu, wt, arc, lruk, left, scen,
                 sketch, adaptive, threads>>

LruSize ==
  /\ engine = "LRU"
  /\ lastOp' = Op("size", DefaultKey, DefaultValue, FALSE, LRU_size(lru),
                  LRU_size(lru), FALSE)
  /\ UNCHANGED <<engine, lru, lfu, wt, arc, lruk, left, recency, scen,
                 sketch, adaptive, threads>>

LruGetOldestKey ==
  /\ engine = "LRU"
  /\ lastOp' = Op("getOldestKey", DefaultKey, DefaultValue, FALSE,
                  LRU_getOldestKey(lru), LRU_size(lru), FALSE)
  /\ UNCHANGED <<engine, lru, lfu, wt, arc, lruk, left, recency, scen,
                 sketch, adaptive, threads>>

InitLRU ==
  /\ engine = "LRU"
  /\ \E capacity \in Capacities : lru = LRU_new(capacity)
  /\ lfu = Idle /\ wt = Idle /\ arc = Idle /\ lruk = Idle
  /\ lastOp = NoOp /\ left = 0 /\ recency = <<>> /\ scen = <<>>
  /\ sketch = Idle /\ adaptive = Idle /\ threads = Idle

NextLRU ==
  \/ \E key \in Keys, value \in Values : LruPut(key, value)
  \/ \E key \in Keys : LruGet(key)
  \/ \E key \in Keys : LruRemove(key)
  \/ LruSize
  \/ LruGetOldestKey

SpecLRU == InitLRU /\ [][NextLRU]_vars

---------------------------------------------------------------------------
(* FrequencySketch<Key>: the Count-Min Sketch of XWTinyLFUCache.h.         *)
(* State: seeds (hashSeeds, drawn at random by the constructor), width,    *)
(* and counters[row][index].  std::hash<int> is the identity.  Only the    *)
(* cells a key of the model (`universe`) maps to are kept: the others stay *)
(* 0 and are never read.                                                   *)

SketchDepth == 4
SketchMinWidth == 256
CounterMax == 255
DecayPeriod == 1000

\* The seed vectors the model draws from.
SeedChoices == {<<0, 1, 2, 3>>, <<2, 2, 1, 0>>}

Max(a, b) == IF a >= b THEN a ELSE b
Min(a, b) == IF a <= b THEN a ELSE b

RECURSIVE Xor(_, _)
Xor(a, b) ==
  IF a = 0 THEN b
  ELSE IF b = 0 THEN a
  ELSE (((a % 2) + (b % 2)) % 2) + 2 * Xor(a \div 2, b \div 2)

Sketch_index(seeds, width, i, key) == ((Xor(key, seeds[i]) % width) + width) % width

Sketch_new(width, depth, seeds, universe) ==
  [width |-> width, depth |-> depth, seeds |-> seeds,
   counters |-> [i \in 1..depth |->
                  [x \in {Sketch_index(seeds, width, i, k) : k \in universe} |-> 0]]]

\* increment without the saturation test: a uint8_t counter at 255 wraps to 0.
Sketch_increment_Wrap(sk, key) ==
  [sk EXCEPT !.counters =
     [i \in 1..sk.depth |->
        LET x == Sketch_index(sk.seeds, sk.width, i, key)
        IN [sk.counters[i] EXCEPT ![x] = (@ + 1) % (CounterMax + 1)]]]

Sketch_increment(sk, key) ==
  [sk EXCEPT !.counters =
     [i \in 1..sk.depth |->
        LET x == Sketch_index(sk.seeds, sk.width, i, key)
        IN [sk.counters[i] EXCEPT ![x] = IF @ < CounterMax THEN @ + 1 ELSE @]]]

RECURSIVE Sketch_minFrom(_, _, _)
Sketch_minFrom(sk, key, i) ==
  LET here == sk.counters[i][Sketch_index(sk.seeds, sk.width, i, key)]
  IN IF i = sk.depth THEN here ELSE Min(here, Sketch_minFrom(sk, key, i + 1))

Sketch_frequency(sk, key) == Sketch_minFrom(sk, key, 1)

Sketch_decay(sk) ==
  [sk EXCEPT !.counters =
     [i \in 1..sk.depth |-> [x \in DOMAIN sk.counters[i] |-> sk.counters[i][x] \div 2]]]

Sketch_reset(sk) ==
  [sk EXCEPT !.counters =
     [i \in 1..sk.depth |-> [x \in DOMAIN sk.counters[i] |-> 0]]]

---------------------------------------------------------------------------
(* A FrequencySketch of its own, with the default width 256 and depth 4,   *)
(* and its four public calls.  Keys 0 and 256 share every cell (the index  *)
(* keeps the low 8 bits of key ^ seed); key 1 has cells of its own.  For   *)
(* increment and frequency lastOp.preSize is the estimate of the key       *)
(* before the call and lastOp.out the estimate after it.                   *)

SketchKeys == {0, 1, 256}

\* Key 1 is the cold key: the model increments it while its estimate is
\* below MaxColdCount, and keys 0 and 256 without limit.
SketchIncrement(key) ==
  /\ engine = "SKETCH"
  /\ key = 1 => Sketch_frequency(sketch, key) < MaxColdCount
  /\ sketch' = Sketch_increment(sketch, key)
  /\ lastOp' = Op("increment", key, DefaultValue, FALSE,
                  Sketch_frequency(sketch', key),
                  Sketch_frequency(sketch, key), FALSE)
  /\ UNCHANGED <<engine, lru, lfu, wt, arc, lruk, left, recency, scen,
                 adaptive, threads>>

SketchFrequency(key) ==
  /\ engine = "SKETCH"
  /\ lastOp' = Op("frequency", key, DefaultValue, FALSE,
                  Sketch_frequency(sketch, key),
                  Sketch_frequency(sketch, key), FALSE)
  /\ UNCHANGED <<engine, lru, lfu, wt, arc, lruk, left, recency, scen,
                 sketch, adaptive, threads>>

SketchDecay ==
  /\ engine = "SKETCH"
  /\ sketch' = Sketch_decay(sketch)
  /\ lastOp' = Op("decay", DefaultKey, DefaultValue, FALSE, DefaultValue, 0, FALSE)
  /\ UNCHANGED <<engine, lru, lfu, wt, arc, lruk, left, recency, scen,
                 adaptive, threads>>

SketchReset ==
  /\ engine = "SKETCH"
  /\ sketch' = Sketch_reset(sketch)
  /\ lastOp' = Op("reset", DefaultKey, DefaultValue, FALSE, DefaultValue, 0, FALSE)
  /\ UNCHANGED <<engine, lru, lfu, wt, arc, lruk, left, recency, scen,
                 adaptive, threads>>

InitSketch ==
  /\ engine = "SKETCH"
  /\ \E seeds \in SeedChoices :
       sketch = Sketch_new(SketchMinWidth, SketchDepth, seeds, SketchKeys)
  /\ lru = Idle /\ lfu = Idle /\ wt = Idle /\ arc = Idle /\ lruk = Idle
  /\ lastOp = NoOp /\ left = 0 /\ recency = <<>> /\ scen = <<>>
  /\ adaptive = Idle /\ threads = Idle

NextSketch ==
  \/ \E key \in SketchKeys : SketchIncrement(key)
  \/ \E key \in SketchKeys : SketchFrequency(key)
  \/ SketchDecay
  \/ SketchReset

SpecSketch == InitSketch /\ [][NextSketch]_vars

---------------------------------------------------------------------------
(* XWTinyLFUCache<Key, Value>.  State: the three capacities (size_t), the  *)
(* Window and Victim XLRUCache instances, the sketch, the admission        *)
(* statistics and operationCount.  The hit statistics of updateStats are   *)
(* left out: nothing reads them but their getters.                         *)

\* size_t holds 0 - 1 as 2^64 - 1; the model writes that value -1, which is
\* also what XLRUCache(int) receives, and orders it above every count.
SizeSub(a, b) == IF a - b < 0 THEN -1 ELSE a - b
SizeLess(a, b) == IF b < 0 THEN a >= 0 ELSE (a >= 0 /\ a < b)

\* The window ratios the model constructs engines with, as num/den:
\* the default 0.01, 0.5 and 1.
WindowRatios == {<<1, 100>>, <<1, 2>>, <<1, 1>>}

WT_windowCapacity(capacity, ratio) ==
  LET w == (capacity * ratio[1]) \div ratio[2]
  IN IF w = 0 THEN 1 ELSE w

WT_victimCapacity(capacity, ratio) ==
  LET w == (capacity * ratio[1]) \div ratio[2]
      v == SizeSub(capacity, w)
  IN IF v = 0 THEN SizeSub(capacity, 1) ELSE v

WT_new(capacity, ratio, seeds, universe) ==
  [totalCapacity |-> capacity,
   windowCapacity |-> WT_windowCapacity(capacity, ratio),
   victimCapacity |-> WT_victimCapacity(capacity, ratio),
   window |-> LRU_new(WT_windowCapacity(capacity, ratio)),
   victim |-> LRU_new(WT_victimCapacity(capacity, ratio)),
   sketch |-> Sketch_new(Max(SketchMinWidth, capacity * 4), SketchDepth, seeds,
                         universe),
   admissionWins |-> 0, admissionLosses |-> 0, operationCount |-> 0]

\* ensureVictimCapacity without the frequency comparison: the key that
\* leaves Window always replaces the oldest entry of Victim.
WT_ensureVictimCapacity_Admit(w, newKey, newValue) ==
  LET w1 == [w EXCEPT !.operationCount = @ + 1]
      w2 == IF w1.operationCount % DecayPeriod = 0
            THEN [w1 EXCEPT !.sketch = Sketch_decay(@)] ELSE w1
      candidate == LRU_getOldestKey(w2.victim)
      got == LRU_get(w2.victim, candidate, DefaultValue)
      w3 == [w2 EXCEPT !.victim = got.c]
  IN IF SizeLess(LRU_size(w2.victim), w2.victimCapacity)
     THEN [w2 EXCEPT !.victim = LRU_put(@, newKey, newValue)]
     ELSE IF ~got.hit
     THEN [w3 EXCEPT !.victim = LRU_put(@, newKey, newValue)]
     ELSE [w3 EXCEPT !.victim = LRU_put(LRU_remove(@, candidate), newKey, newValue),
                     !.admissionWins = @ + 1]

\* ensureVictimCapacity with the comparison turned round: the less frequent
\* key wins.
WT_ensureVictimCapacity_Reversed(w, newKey, newValue) ==
  LET w1 == [w EXCEPT !.operationCount = @ + 1]
      w2 == IF w1.operationCount % DecayPeriod = 0
            THEN [w1 EXCEPT !.sketch = Sketch_decay(@)] ELSE w1
      candidate == LRU_getOldestKey(w2.victim)
      got == LRU_get(w2.victim, candidate, DefaultValue)
      w3 == [w2 EXCEPT !.victim = got.c]
      newKeyFreq == Sketch_frequency(w3.sketch, newKey)
      victimFreq == Sketch_frequency(w3.sketch, candidate)
  IN IF SizeLess(LRU_size(w2.victim), w2.victimCapacity)
     THEN [w2 EXCEPT !.victim = LRU_put(@, newKey, newValue)]
     ELSE IF ~got.hit
     THEN [w3 EXCEPT !.victim = LRU_put(@, newKey, newValue)]
     ELSE IF newKeyFreq <= victimFreq
     THEN [w3 EXCEPT !.victim = LRU_put(LRU_remove(@, candidate), newKey, newValue),
                     !.admissionWins = @ + 1]
     ELSE [w3 EXCEPT !.admissionLosses = @ + 1]

WT_ensureVictimCapacity(w, newKey, newValue) ==
  LET w1 == [w EXCEPT !.operationCount = @ + 1]
      w2 == IF w1.operationCount % DecayPeriod = 0
            THEN [w1 EXCEPT !.sketch = Sketch_decay(@)] ELSE w1
      candidate == LRU_getOldestKey(w2.victim)
      got == LRU_get(w2.victim, candidate, DefaultValue)
      w3 == [w2 EXCEPT !.victim = got.c]
      newKeyFreq == Sketch_frequency(w3.sketch, newKey)
      victimFreq == Sketch_frequency(w3.sketch, candidate)
  IN IF SizeLess(LRU_size(w2.victim), w2.victimCapacity)
     THEN [w2 EXCEPT !.victim = LRU_put(@, newKey, newValue)]
     ELSE IF ~got.hit
     THEN [w3 EXCEPT !.victim = LRU_put(@, newKey, newValue)]
     ELSE IF newKeyFreq >= victimFreq
     THEN [w3 EXCEPT !.victim = LRU_put(LRU_remove(@, candidate), newKey, newValue),
                     !.admissionWins = @ + 1]
     ELSE [w3 EXCEPT !.admissionLosses = @ + 1]

WT_ensureWindowCapacity(w) ==
  IF ~SizeLess(LRU_size(w.window), w.windowCapacity)
  THEN LET windowVictimKey == LRU_getOldestKey(w.window)
           got == LRU_get(w.window, windowVictimKey, DefaultValue)
       IN IF got.hit
          THEN WT_ensureVictimCapacity(
                 [w EXCEPT !.window = LRU_remove(got.c, windowVictimKey)],
                 windowVictimKey, got.value)
          ELSE w
  ELSE w

\* put that brings a key found in Victim into Window as well.
WT_put_Promote(w, key, value) ==
  IF w.totalCapacity = 0 THEN w
  ELSE
    LET w1 == [w EXCEPT !.sketch = Sketch_increment(@, key)]
        inW == LRU_get(w1.window, key, DefaultValue)
        inV == LRU_get(w1.victim, key, DefaultValue)
    IN IF inW.hit
       THEN [w1 EXCEPT !.window = LRU_put(inW.c, key, value)]
       ELSE IF inV.hit
       THEN [w1 EXCEPT !.victim = LRU_put(inV.c, key, value),
                       !.window = LRU_put(@, key, value)]
       ELSE LET w2 == WT_ensureWindowCapacity(w1)
            IN [w2 EXCEPT !.window = LRU_put(@, key, value)]

WT_put(w, key, value) ==
  IF w.totalCapacity = 0 THEN w
  ELSE
    LET w1 == [w EXCEPT !.sketch = Sketch_increment(@, key)]
        inW == LRU_get(w1.window, key, DefaultValue)
        inV == LRU_get(w1.victim, key, DefaultValue)
    IN IF inW.hit
       THEN [w1 EXCEPT !.window = LRU_put(inW.c, key, value)]
       ELSE IF inV.hit
       THEN [w1 EXCEPT !.victim = LRU_put(inV.c, key, value)]
       ELSE LET w2 == WT_ensureWindowCapacity(w1)
            IN [w2 EXCEPT !.window = LRU_put(@, key, value)]

WT_get(w, key, value) ==
  IF w.totalCapacity = 0 THEN [c |-> w, hit |-> FALSE, value |-> value]
  ELSE
    LET w1 == [w EXCEPT !.sketch = Sketch_increment(@, key)]
        inW == LRU_get(w1.window, key, value)
        inV == LRU_get(w1.victim, key, value)
    IN IF inW.hit
       THEN [c |-> [w1 EXCEPT !.window = inW.c], hit |-> TRUE, value |-> inW.value]
       ELSE IF inV.hit
       THEN [c |-> [w1 EXCEPT !.victim = inV.c], hit |-> TRUE, value |-> inV.value]
       ELSE [c |-> w1, hit |-> FALSE, value |-> value]

WT_remove(w, key) ==
  [w EXCEPT !.window = LRU_remove(@, key), !.victim = LRU_remove(@, key)]

\* The entries resident in Window and in Victim.
WT_resident(w) == KeysOf(w.window.list) \cup KeysOf(w.victim.list)
WT_count(w) == LRU_size(w.window) + LRU_size(w.victim)

---------------------------------------------------------------------------
(* The W-TinyLFU engine's public calls.                                    *)

WtPut(key, value) ==
  /\ engine = "WTLFU" /\ left > 0
  /\ wt' = WT_put(wt, key, value)
  /\ lastOp' = Op("put", key, value, FALSE, DefaultValue,
                  WT_count(wt), key \in WT_resident(wt))
  /\ left' = left - 1
  /\ UNCHANGED <<engine, lru, lfu, arc, lruk, recency, scen,
                 sketch, adaptive, threads>>

WtGet(key) ==
  /\ engine = "WTLFU" /\ left > 0
  /\ LET r == WT_get(wt, key, DefaultValue)
     IN /\ wt' = r.c
        /\ lastOp' = Op("get", key, DefaultValue, r.hit, r.value,
                        WT_count(wt), key \in WT_resident(wt))
  /\ left' = left - 1
  /\ UNCHANGED <<engine, lru, lfu, arc, lruk, recency, scen,
                 sketch, adaptive, threads>>

WtRemove(key) ==
  /\ engine = "WTLFU" /\ left > 0
  /\ wt' = WT_remove(wt, key)
  /\ lastOp' = Op("remove", key, DefaultValue, FALSE, DefaultValue,
                  WT_count(wt), key \in WT_resident(wt))
  /\ left' = left - 1
  /\ UNCHANGED <<engine, lru, lfu, arc, lruk, recency, scen,
                 sketch, adaptive, threads>>

InitWT ==
  /\ engine = "WTLFU"
  /\ \E capacity \in Capacities, ratio \in WindowRatios, seeds \in SeedChoices :
       wt = WT_new(capacity, ratio, seeds, Keys)
  /\ lru = Idle /\ lfu = Idle /\ arc = Idle /\ lruk = Idle
  /\ lastOp = NoOp /\ left = MaxStepsWT /\ recency = <<>> /\ scen = <<>>
  /\ sketch = Idle /\ adaptive = Idle /\ threads = Idle

NextWT ==
  \/ \E key \in Keys, value \in Values : WtPut(key, value)
  \/ \E key \in Keys : WtGet(key)
  \/ \E key \in Keys : WtRemove(key)

SpecWT == InitWT /\ [][NextWT]_vars

\* The constructor alone: `scen` holds the arguments (capacity, windowRatio)
\* of a constructor call, and the one step is the call.  The ratios are the
\* default 0.01 and multiples of 1/8, whose products with the capacities of
\* the model are exact in double arithmetic or, for 0.01, below 1.
SizingMaxCap == 30

SizingRatios == {<<1, 100>>, <<1, 8>>, <<1, 4>>, <<1, 2>>, <<3, 4>>}

WtConstruct ==
  /\ engine = "WTLFU" /\ wt = Idle
  /\ \E seeds \in SeedChoices : wt' = WT_new(scen[1], scen[2], seeds, Keys)
  /\ lastOp' = Op("new", DefaultKey, DefaultValue, FALSE, DefaultValue, 0, FALSE)
  /\ UNCHANGED <<engine, lru, lfu, arc, lruk, left, recency, scen,
                 sketch, adaptive, threads>>

InitWTSizing ==
  /\ engine = "WTLFU" /\ wt = Idle
  /\ \E capacity \in 0..SizingMaxCap, ratio \in SizingRatios :
       scen = <<capacity, ratio>>
  /\ lru = Idle /\ lfu = Idle /\ arc = Idle /\ lruk = Idle
  /\ lastOp = NoOp /\ left = 0 /\ recency = <<>>
  /\ sketch = Idle /\ adaptive = Idle /\ threads = Idle

NextWTSizing == WtConstruct

SpecWTSizing == InitWTSizing /\ [][NextWTSizing]_vars

\* Engines whose Victim has room for two entries, called with one key more
\* than Window and Victim can hold together, every put with the same value:
\* capacity 2 with the default ratio, and capacity 3 with ratio 0.5.
WideKeys == 0..(MaxKey + 1)

WideConfigs == {<<2, <<1, 100>>>>, <<3, <<1, 2>>>>}

InitWTWide ==
  /\ engine = "WTLFU"
  /\ \E cfg \in WideConfigs, seeds \in SeedChoices :
       wt = WT_new(cfg[1], cfg[2], seeds, WideKeys)
  /\ lru = Idle /\ lfu = Idle /\ arc = Idle /\ lruk = Idle
  /\ lastOp = NoOp /\ left = MaxStepsWT /\ recency = <<>> /\ scen = <<>>
  /\ sketch = Idle /\ adaptive = Idle /\ threads = Idle

NextWTWide ==
  \/ \E key \in WideKeys : WtPut(key, 1)
  \/ \E key \in WideKeys : WtGet(key)

SpecWTWide == InitWTWide /\ [][NextWTWide]_vars

---------------------------------------------------------------------------
(* The locks of XWTinyLFUCache.  mainMutex and statsMutex belong to the    *)
(* engine, mtx to the sketch and to each of the two XLRUCache instances.   *)
(* Every method of the sketch and of XLRUCache locks its mtx on entry and  *)
(* unlocks it on return and calls nothing that locks.  The lock program of *)
(* a call is the sequence of <<"lock", m>> and <<"unlock", m>> events it   *)
(* goes through on the cache w.                                            *)

WT_resetStats(w) ==
  [w EXCEPT !.admissionWins = 0, !.admissionLosses = 0, !.operationCount = 0]

WT_reset(w) ==
  WT_resetStats([w EXCEPT !.window = LRU_new(w.windowCapacity),
                          !.victim = LRU_new(w.victimCapacity),
                          !.sketch = Sketch_reset(@)])

\* One call of a method that locks m for its own length.
Locked(m) == <<<<"lock", m>>, <<"unlock", m>>>>

\* std::lock_guard on m around the events of body.
LockGuard(m, body) == <<<<"lock", m>>>> \o body \o <<<<"unlock", m>>>>

SketchCall == Locked("frequencySketch.mtx")
WindowCall == Locked("windowCache.mtx")
VictimCall == Locked("victimCache.mtx")

\* ensureVictimCapacity(newKey, newValue) on w.
WT_ensureVictimLocks(w, newKey) ==
  LET candidate == LRU_getOldestKey(w.victim)
      got == LRU_get(w.victim, candidate, DefaultValue)
      newKeyFreq == Sketch_frequency(w.sketch, newKey)
      victimFreq == Sketch_frequency(w.sketch, candidate)
  IN (IF (w.operationCount + 1) % DecayPeriod = 0 THEN SketchCall ELSE <<>>)
     \o VictimCall
     \o (IF SizeLess(LRU_size(w.victim), w.victimCapacity) THEN VictimCall
         ELSE VictimCall \o VictimCall
              \o (IF ~got.hit THEN VictimCall
                  ELSE SketchCall \o SketchCall
                       \o (IF newKeyFreq >= victimFreq
                           THEN VictimCall \o VictimCall ELSE <<>>)))

\* ensureWindowCapacity() on w.
WT_ensureWindowLocks(w) ==
  LET windowVictimKey == LRU_getOldestKey(w.window)
      got == LRU_get(w.window, windowVictimKey, DefaultValue)
  IN WindowCall
     \o (IF ~SizeLess(LRU_size(w.window), w.windowCapacity)
         THEN WindowCall \o WindowCall
              \o (IF got.hit
                  THEN WindowCall
                       \o WT_ensureVictimLocks(
                            [w EXCEPT !.window = LRU_remove(got.c, windowVictimKey)],
                            windowVictimKey)
                  ELSE <<>>)
         ELSE <<>>)

\* updateStats, the statistics getters and resetStats.
StatsCall == Locked("statsMutex")

\* The lock programs with a resetStats that, holding statsMutex, takes
\* mainMutex.
WT_lockProgram_StatsFirst(w, call) ==
  LET key == call[2]
      w1 == [w EXCEPT !.sketch = Sketch_increment(@, key)]
      inW == LRU_get(w1.window, key, DefaultValue)
      inV == LRU_get(w1.victim, key, DefaultValue)
  IN CASE call[1] = "put" ->
            IF w.totalCapacity = 0 THEN <<>>
            ELSE LockGuard("mainMutex",
                   SketchCall \o WindowCall
                   \o (IF inW.hit THEN WindowCall
                       ELSE VictimCall
                            \o (IF inV.hit THEN VictimCall
                                ELSE WT_ensureWindowLocks(w1) \o WindowCall)))
       [] call[1] = "get" ->
            IF w.totalCapacity = 0 THEN <<>>
            ELSE LockGuard("mainMutex",
                   SketchCall \o WindowCall
                   \o (IF inW.hit THEN StatsCall ELSE VictimCall \o StatsCall))
       [] call[1] = "remove" -> LockGuard("mainMutex", WindowCall \o VictimCall)
       [] call[1] = "reset" -> LockGuard("mainMutex", SketchCall \o StatsCall)
       [] call[1] = "resetStats" ->
            LockGuard("statsMutex", LockGuard("mainMutex", <<>>))
       [] call[1] = "getHitRate" -> StatsCall

\* The lock program of call = <<method, key, value>> on w.
WT_lockProgram(w, call) ==
  LET key == call[2]
      w1 == [w EXCEPT !.sketch = Sketch_increment(@, key)]
      inW == LRU_get(w1.window, key, DefaultValue)
      inV == LRU_get(w1.victim, key, DefaultValue)
  IN CASE call[1] = "put" ->
            IF w.totalCapacity = 0 THEN <<>>
            ELSE LockGuard("mainMutex",
                   SketchCall \o WindowCall
                   \o (IF inW.hit THEN WindowCall
                       ELSE VictimCall
                            \o (IF inV.hit THEN VictimCall
                                ELSE WT_ensureWindowLocks(w1) \o WindowCall)))
       [] call[1] = "get" ->
            IF w.totalCapacity = 0 THEN <<>>
            ELSE LockGuard("mainMutex",
                   SketchCall \o WindowCall
                   \o (IF inW.hit THEN StatsCall ELSE VictimCall \o StatsCall))
       [] call[1] = "remove" -> LockGuard("mainMutex", WindowCall \o VictimCall)
       [] call[1] = "reset" -> LockGuard("mainMutex", SketchCall \o StatsCall)
       [] call[1] = "resetStats" -> StatsCall
       [] call[1] = "getHitRate" -> StatsCall

\* The cache after the call.
WT_effect(w, call) ==
  CASE call[1] = "put" -> WT_put(w, call[2], call[3])
    [] call[1] = "get" -> WT_get(w, call[2], call[3]).c
    [] call[1] = "remove" -> WT_remove(w, call[2])
    [] call[1] = "reset" -> WT_reset(w)
    [] call[1] = "resetStats" -> WT_resetStats(w)
    [] call[1] = "getHitRate" -> w

WtCalls ==
  {<<"put", key, 1>> : key \in Keys}
    \cup {<<m, key, DefaultValue>> : m \in {"get", "remove"}, key \in Keys}
    \cup {<<m, DefaultKey, DefaultValue>> : m \in {"reset", "resetStats", "getHitRate"}}

WtMutexes ==
  {"mainMutex", "statsMutex", "frequencySketch.mtx", "windowCache.mtx",
   "victimCache.mtx"}

(* Two threads calling one XWTinyLFUCache.  threads.owner[m] is the thread *)
(* that holds m (0 for none); a thread has the events of its call still to *)
(* come (program) and the mutexes it holds, in the order it took them.     *)
(* A call takes effect on the cache when it takes its first mutex.         *)

WtThreadIdle == [program |-> <<>>, held |-> <<>>, running |-> FALSE]

\* A thread enters a call and takes its first mutex.
WtBegin(i, call) ==
  /\ engine = "WTLFU" /\ threads # Idle /\ left > 0
  /\ ~threads.t[i].running
  /\ LET program == WT_lockProgram(wt, call)
     IN IF program = <<>>
        THEN threads' = threads
        ELSE /\ threads.owner[program[1][2]] = 0
             /\ threads' = [threads EXCEPT
                              !.owner[program[1][2]] = i,
                              !.t[i] = [program |-> Tail(program),
                                        held |-> <<program[1][2]>>,
                                        running |-> TRUE]]
  /\ wt' = WT_effect(wt, call)
  /\ left' = left - 1
  /\ lastOp' = Op(call[1], call[2], call[3], FALSE, DefaultValue, i, FALSE)
  /\ UNCHANGED <<engine, lru, lfu, arc, lruk, recency, scen, sketch, adaptive>>

\* The next event of thread i is a lock of a free mutex.
WtLock(i) ==
  /\ engine = "WTLFU" /\ threads # Idle
  /\ threads.t[i].running /\ threads.t[i].program # <<>>
  /\ threads.t[i].program[1][1] = "lock"
  /\ threads.owner[threads.t[i].program[1][2]] = 0
  /\ threads' = [threads EXCEPT
                   !.owner[threads.t[i].program[1][2]] = i,
                   !.t[i].held = Append(@, threads.t[i].program[1][2]),
                   !.t[i].program = Tail(@)]
  /\ UNCHANGED <<engine, lru, lfu, wt, arc, lruk, lastOp, left, recency, scen,
                 sketch, adaptive>>

WtUnlock(i) ==
  /\ engine = "WTLFU" /\ threads # Idle
  /\ threads.t[i].running /\ threads.t[i].program # <<>>
  /\ threads.t[i].program[1][1] = "unlock"
  /\ threads' = [threads EXCEPT
                   !.owner[threads.t[i].program[1][2]] = 0,
                   !.t[i].held = SelectSeq(@, LAMBDA m : m # threads.t[i].program[1][2]),
                   !.t[i].program = Tail(@)]
  /\ UNCHANGED <<engine, lru, lfu, wt, arc, lruk, lastOp, left, recency, scen,
                 sketch, adaptive>>

WtReturn(i) ==
  /\ engine = "WTLFU" /\ threads # Idle
  /\ threads.t[i].running /\ threads.t[i].program = <<>>
  /\ threads' = [threads EXCEPT !.t[i] = WtThreadIdle]
  /\ UNCHANGED <<engine, lru, lfu, wt, arc, lruk, lastOp, left, recency, scen,
                 sketch, adaptive>>

InitWTThreads ==
  /\ engine = "WTLFU"
  /\ \E capacity \in 1..MaxCap, seeds \in SeedChoices :
       wt = WT_new(capacity, <<1, 2>>, seeds, Keys)
  /\ lru = Idle /\ lfu = Idle /\ arc = Idle /\ lruk = Idle
  /\ lastOp = NoOp /\ left = MaxCallsWT /\ recency = <<>> /\ scen = <<>>
  /\ sketch = Idle /\ adaptive = Idle
  /\ threads = [owner |-> [m \in WtMutexes |-> 0],
                t |-> <<WtThreadIdle, WtThreadIdle>>]

NextWTThreads ==
  \/ \E i \in {1, 2}, call \in WtCalls : WtBegin(i, call)
  \/ \E i \in {1, 2} : WtLock(i)
  \/ \E i \in {1, 2} : WtUnlock(i)
  \/ \E i \in {1, 2} : WtReturn(i)

SpecWTThreads == InitWTThreads /\ [][NextWTThreads]_vars

---------------------------------------------------------------------------
(* The hot-key workload on a W-TinyLFU engine of capacity 10 and window    *)
(* ratio 0.1: the keys 0 .. 99 are put once each, key 7 is then accessed   *)
(* 100 times, by put only or by get only (`scen` says which), a fresh key  *)
(* 100 is put, and key 7 is looked up.  `left` counts the calls to come.   *)

HotKeyRun ==
  [capacity |-> 10, ratio |-> <<1, 10>>, inserted |-> 100, hot |-> 7,
   accesses |-> 100]

InitWTHot ==
  /\ engine = "WTLFU"
  /\ \E seeds \in SeedChoices :
       wt = WT_new(HotKeyRun.capacity, HotKeyRun.ratio, seeds,
                   0..HotKeyRun.inserted)
  /\ lru = Idle /\ lfu = Idle /\ arc = Idle /\ lruk = Idle
  /\ lastOp = NoOp /\ left = HotKeyRun.inserted + HotKeyRun.accesses + 2
  /\ recency = <<>> /\ scen \in {<<"put">>, <<"get">>}
  /\ sketch = Idle /\ adaptive = Idle /\ threads = Idle

NextWTHot ==
  \/ /\ left > HotKeyRun.accesses + 2
     /\ WtPut(HotKeyRun.inserted + HotKeyRun.accesses + 2 - left, 1)
  \/ /\ left \in 3..(HotKeyRun.accesses + 2) /\ scen = <<"put">>
     /\ WtPut(HotKeyRun.hot, 1)
  \/ /\ left \in 3..(HotKeyRun.accesses + 2) /\ scen = <<"get">>
     /\ WtGet(HotKeyRun.hot)
  \/ left = 2 /\ WtPut(HotKeyRun.inserted, 1)
  \/ left = 1 /\ WtGet(HotKeyRun.hot)

SpecWTHot == InitWTHot /\ [][NextWTHot]_vars

---------------------------------------------------------------------------
(* XLFUCache<Key, Value> and Freqlist.  State: the constructor arguments,  *)
(* minFreq, curAverageFreq, curTotalFreq, operationCount, and freqMap: a   *)
(* function from each frequency whose Freqlist was ever created to the     *)
(* nodes linked in it, front first.  A node is [key, value, live]: its     *)
(* freq is the bucket it is linked in, and live says that nodeMap[key] is  *)
(* this node (kickout can erase a key from nodeMap whose node stays        *)
(* linked).                                                                *)

INT8_MAX == 127

\* The agingFactor of the model is the fraction num/den.
LFU_new(capacity, maxAvgFreq, agingThreshold, agingFactor) ==
  [capacity |-> capacity, minFreq |-> INT8_MAX, maxAverageFreq |-> maxAvgFreq,
   curAverageFreq |-> 0, curTotalFreq |-> 0,
   agingThreshold |-> agingThreshold, agingFactor |-> agingFactor,
   operationCount |-> 0, freqMap |-> <<>>]

\* The frequency of the node nodeMap[key] (0 when the key is not mapped).
LFU_freqOf(l, key) ==
  IF \E f \in DOMAIN l.freqMap : \E i \in 1..Len(l.freqMap[f]) :
        l.freqMap[f][i].key = key /\ l.freqMap[f][i].live
  THEN CHOOSE f \in DOMAIN l.freqMap : \E i \in 1..Len(l.freqMap[f]) :
        l.freqMap[f][i].key = key /\ l.freqMap[f][i].live
  ELSE 0

LFU_liveIndex(list, key) ==
  IF \E i \in 1..Len(list) : list[i].key = key /\ list[i].live
  THEN CHOOSE i \in 1..Len(list) : list[i].key = key /\ list[i].live
  ELSE 0

\* nodeMap: its keys, its size, the node of a key.
LFU_keys(l) ==
  UNION {{l.freqMap[f][i].key : i \in {j \in 1..Len(l.freqMap[f]) : l.freqMap[f][j].live}} :
           f \in DOMAIN l.freqMap}
LFU_size(l) == Cardinality(LFU_keys(l))
LFU_has(l, key) == LFU_freqOf(l, key) # 0
LFU_node(l, key) ==
  LET f == LFU_freqOf(l, key)
  IN l.freqMap[f][LFU_liveIndex(l.freqMap[f], key)]

\* int / size_t, stored to an int.  curTotalFreq is never negative where
\* this is evaluated (LfuTotalFreqNonNegative).
LFU_average(total, size) == IF size = 0 THEN 0 ELSE total \div size

\* addToFreqlist: create the Freqlist of f when there is none, link at the tail.
LFU_addToFreqlist(l, node, f) ==
  [l EXCEPT !.freqMap =
     IF f \in DOMAIN l.freqMap
     THEN [l.freqMap EXCEPT ![f] = Append(@, node)]
     ELSE [g \in DOMAIN l.freqMap \cup {f} |->
             IF g = f THEN <<node>> ELSE l.freqMap[g]]]

\* removeFromFreqlist of the node nodeMap[key], linked in bucket f.
LFU_removeFromFreqlist(l, key, f) ==
  [l EXCEPT !.freqMap[f] = RemoveAt(@, LFU_liveIndex(@, key))]

LFU_updateMinFreq(l) ==
  LET below == {f \in DOMAIN l.freqMap : Len(l.freqMap[f]) > 0 /\ f < INT8_MAX}
  IN [l EXCEPT !.minFreq =
        IF below = {} THEN 1
        ELSE CHOOSE f \in below : \A g \in below : f <= g]

RECURSIVE LFU_sumLive(_, _)
LFU_sumLive(l, keys) ==
  IF keys = {} THEN 0
  ELSE LET k == CHOOSE x \in keys : TRUE
       IN LFU_freqOf(l, k) + LFU_sumLive(l, keys \ {k})

LFU_recalculateFreqStats(l) ==
  LET total == LFU_sumLive(l, LFU_keys(l))
  IN [l EXCEPT !.curTotalFreq = total,
               !.curAverageFreq = LFU_average(total, LFU_size(l))]

\* static_cast<int>(freq * agingFactor), raised to 1.
LFU_agedFreq(l, f) ==
  Max(1, (f * l.agingFactor[1]) \div l.agingFactor[2])

\* The loop of performAging over the nodes in `order`.
RECURSIVE LFU_ageNodes(_, _)
LFU_ageNodes(l, order) ==
  IF order = <<>> THEN l
  ELSE LET key == Head(order)
           f == LFU_freqOf(l, key)
           node == LFU_node(l, key)
           l1 == LFU_removeFromFreqlist(l, key, f)
       IN LFU_ageNodes(LFU_addToFreqlist(l1, node, LFU_agedFreq(l, f)), Tail(order))

\* performAging; `order` is the order in which nodeMap is iterated, which
\* std::unordered_map leaves unspecified.
LFU_performAging(l, order) ==
  IF LFU_size(l) = 0 THEN l
  ELSE LFU_updateMinFreq(LFU_recalculateFreqStats(LFU_ageNodes(l, order)))

\* addFreqNum's counters, before its test for an aging pass.
LFU_countAccess(l) ==
  LET l1 == [l EXCEPT !.curTotalFreq = @ + 1, !.operationCount = @ + 1]
  IN [l1 EXCEPT !.curAverageFreq = LFU_average(l1.curTotalFreq, LFU_size(l1))]

\* addFreqNum's test: the call runs an aging pass.
LFU_agingDue(l) ==
  LET l2 == LFU_countAccess(l)
  IN \/ l2.operationCount % l2.agingThreshold = 0
     \/ l2.curAverageFreq > l2.maxAverageFreq

LFU_addFreqNum(l, order) ==
  IF LFU_agingDue(l) THEN LFU_performAging(LFU_countAccess(l), order)
  ELSE LFU_countAccess(l)

LFU_decreaseFreqNum(l, num) ==
  LET total == l.curTotalFreq - num
  IN [l EXCEPT !.curTotalFreq = total,
               !.curAverageFreq = LFU_average(total, LFU_size(l))]

\* getInternal up to its call of addFreqNum: the node moves one bucket up.
LFU_raise(l, key) ==
  LET f == LFU_freqOf(l, key)
      node == LFU_node(l, key)
      l1 == LFU_addToFreqlist(LFU_removeFromFreqlist(l, key, f), node, f + 1)
  IN IF f = l1.minFreq /\ Len(l1.freqMap[f]) = 0
     THEN [l1 EXCEPT !.minFreq = @ + 1] ELSE l1

LFU_getInternal(l, key, order) == LFU_addFreqNum(LFU_raise(l, key), order)

\* nodeMap.erase(key): the node, if linked, stays linked.
LFU_eraseKey(l, key) ==
  IF ~LFU_has(l, key) THEN l
  ELSE LET f == LFU_freqOf(l, key)
           i == LFU_liveIndex(l.freqMap[f], key)
       IN [l EXCEPT !.freqMap[f][i].live = FALSE]

\* kickout.  `junk` is the key read from the tail sentinel of an empty
\* Freqlist, which Node() leaves uninitialised.
\* kickout finds the Freqlist of minFreq empty and reads its tail sentinel.
LFU_readsSentinel(l) ==
  LET stale == l.minFreq \notin DOMAIN l.freqMap \/ Len(l.freqMap[l.minFreq]) = 0
      l1 == IF stale THEN LFU_updateMinFreq(l) ELSE l
  IN l1.minFreq \in DOMAIN l1.freqMap /\ Len(l1.freqMap[l1.minFreq]) = 0

LFU_kickout(l, junk) ==
  LET stale == l.minFreq \notin DOMAIN l.freqMap \/ Len(l.freqMap[l.minFreq]) = 0
      l1 == IF stale THEN LFU_updateMinFreq(l) ELSE l
      f == l1.minFreq
  IN IF f \notin DOMAIN l1.freqMap THEN l1
     ELSE IF Len(l1.freqMap[f]) = 0
     THEN LFU_decreaseFreqNum(LFU_eraseKey(l1, junk), 1)
     ELSE LET node == l1.freqMap[f][1]
              l2 == [l1 EXCEPT !.freqMap[f] = Tail(@)]
          IN LFU_decreaseFreqNum(LFU_eraseKey(l2, node.key), f)

\* putInternal up to its call of addFreqNum: room is made, the node linked.
LFU_insert(l, key, value, junk) ==
  LET l1 == IF LFU_size(l) = l.capacity THEN LFU_kickout(l, junk) ELSE l
  IN LFU_addToFreqlist(l1, [key |-> key, value |-> value, live |-> TRUE], 1)

LFU_putInternal(l, key, value, order, junk) ==
  [LFU_addFreqNum(LFU_insert(l, key, value, junk), order) EXCEPT !.minFreq = Min(@, 1)]

\* put that, for a resident key, stores the value and counts no access.
LFU_put_NoAccess(l, key, value, order, junk) ==
  IF l.capacity = 0 THEN l
  ELSE IF LFU_has(l, key)
  THEN LET f == LFU_freqOf(l, key)
           i == LFU_liveIndex(l.freqMap[f], key)
       IN [l EXCEPT !.freqMap[f][i].value = value]
  ELSE LFU_putInternal(l, key, value, order, junk)

LFU_put(l, key, value, order, junk) ==
  IF l.capacity = 0 THEN l
  ELSE IF LFU_has(l, key)
  THEN LET f == LFU_freqOf(l, key)
           i == LFU_liveIndex(l.freqMap[f], key)
       IN LFU_getInternal([l EXCEPT !.freqMap[f][i].value = value], key, order)
  ELSE LFU_putInternal(l, key, value, order, junk)

LFU_get(l, key, value, order) ==
  IF LFU_has(l, key)
  THEN [c |-> LFU_getInternal(l, key, order), hit |-> TRUE,
        value |-> LFU_node(l, key).value]
  ELSE [c |-> l, hit |-> FALSE, value |-> value]

---------------------------------------------------------------------------
(* The LFU engine's public calls.                                          *)

\* The orders in which the nodes of nodeMap can be iterated.
Orders(keys) ==
  {o \in [1..Cardinality(keys) -> keys] : \A i, j \in DOMAIN o : i # j => o[i] # o[j]}

\* The keys a call can read out of an uninitialised sentinel: any key, or none
\* of the model's.
Junk == Keys \cup {-1}

\* What kickout can read in a put of `key`: the sentinel's key when it reads
\* the sentinel, nothing otherwise.
JunkAt(l, key) ==
  IF l.capacity # 0 /\ ~LFU_has(l, key) /\ LFU_size(l) = l.capacity
     /\ LFU_readsSentinel(l)
  THEN Junk ELSE {-1}

\* The iteration orders of the aging pass of a call whose addFreqNum finds
\* the engine in state `l`: one, never used, when no pass is due.
OrdersAt(l) == IF LFU_agingDue(l) THEN Orders(LFU_keys(l)) ELSE {<<>>}

\* The state in which put(key, value) reaches addFreqNum.
LFU_atAddFreqNum(l, key, value, junk) ==
  IF l.capacity = 0 THEN l
  ELSE IF LFU_has(l, key) THEN LFU_raise(l, key)
  ELSE LFU_insert(l, key, value, junk)

LfuPut(key, value) ==
  /\ engine = "LFU" /\ left > 0
  /\ \E junk \in JunkAt(lfu, key) :
       \E order \in OrdersAt(LFU_atAddFreqNum(lfu, key, value, junk)) :
         lfu' = LFU_put(lfu, key, value, order, junk)
  /\ lastOp' = Op("put", key, value, FALSE, DefaultValue,
                  LFU_size(lfu), LFU_has(lfu, key))
  /\ left' = left - 1
  /\ UNCHANGED <<engine, lru, wt, arc, lruk, recency, scen,
                 sketch, adaptive, threads>>

LfuGet(key) ==
  /\ engine = "LFU" /\ left > 0
  /\ \E order \in (IF LFU_has(lfu, key) THEN OrdersAt(LFU_raise(lfu, key)) ELSE {<<>>}) :
       LET r == LFU_get(lfu, key, DefaultValue, order)
       IN /\ lfu' = r.c
          /\ lastOp' = Op("get", key, DefaultValue, r.hit, r.value,
                          LFU_size(lfu), LFU_has(lfu, key))
  /\ left' = left - 1
  /\ UNCHANGED <<engine, lru, wt, arc, lruk, recency, scen,
                 sketch, adaptive, threads>>

\* The constructor arguments (maxAvgFreq, agingThreshold, agingFactor) the
\* model builds engines with: the defaults, and a setting whose aging passes
\* run within the model's bounds.
LfuConfigs == {<<1000000, 10000, <<4, 5>>>>, <<2, 3, <<1, 2>>>>}

InitLFU ==
  /\ engine = "LFU"
  /\ \E capacity \in Capacities, cfg \in LfuConfigs :
       lfu = LFU_new(capacity, cfg[1], cfg[2], cfg[3])
  /\ lru = Idle /\ wt = Idle /\ arc = Idle /\ lruk = Idle
  /\ lastOp = NoOp /\ left = MaxStepsLFU /\ recency = <<>> /\ scen = <<>>
  /\ sketch = Idle /\ adaptive = Idle /\ threads = Idle

NextLFU ==
  \/ \E key \in Keys, value \in Values : LfuPut(key, value)
  \/ \E key \in Keys : LfuGet(key)

SpecLFU == InitLFU /\ [][NextLFU]_vars

\* LFU engines whose aging passes run within the model's bounds, with
\* agingFactor 0.5: one ages every AgingEvery counted operations, with the
\* default maxAvgFreq, which no mean frequency of the model exceeds; the other
\* ages when the mean frequency exceeds 2, with the default agingThreshold.
AgingEvery == 3

AgingConfigs == {<<1000000, AgingEvery>>, <<2, 10000>>}

\* node->freq -= maxAverageFreq / 2, raised to 1.
LFU_shiftedFreq(l, f) ==
  Max(1, f - l.maxAverageFreq \div 2)

InitLFUAging ==
  /\ engine = "LFU"
  /\ \E capacity \in 1..MaxCap, cfg \in AgingConfigs :
       lfu = LFU_new(capacity, cfg[1], cfg[2], <<1, 2>>)
  /\ lru = Idle /\ wt = Idle /\ arc = Idle /\ lruk = Idle
  /\ lastOp = NoOp /\ left = MaxStepsLFU /\ recency = <<>> /\ scen = <<>>
  /\ sketch = Idle /\ adaptive = Idle /\ threads = Idle

SpecLFUAging == InitLFUAging /\ [][NextLFU]_vars

\* One LFU engine of capacity 1 whose aging pass runs at operation
\* DeepAgingThreshold with agingFactor 0.99.  Its caller puts key 1, reads it
\* any number of times and then puts key 2.
DeepAgingThreshold == 130

InitLFUDeep ==
  /\ engine = "LFU"
  /\ lfu = LFU_new(1, 1000000, DeepAgingThreshold, <<99, 100>>)
  /\ lru = Idle /\ wt = Idle /\ arc = Idle /\ lruk = Idle
  /\ lastOp = NoOp /\ left = DeepAgingThreshold + 1 /\ recency = <<>> /\ scen = <<>>
  /\ sketch = Idle /\ adaptive = Idle /\ threads = Idle

NextLFUDeep ==
  \/ lastOp.op = "none" /\ LfuPut(1, 1)
  \/ lastOp.op # "none" /\ lastOp.key = 1 /\ LfuGet(1)
  \/ lastOp.op = "get" /\ LfuPut(2, 1)

SpecLFUDeep == InitLFUDeep /\ [][NextLFUDeep]_vars

\* One LFU engine of capacity 2 whose single aging pass, with agingFactor
\* 0.99, runs at operation HotAgingThreshold.  Its caller puts keys 1 and 0,
\* reads key 1 up to frequency INT8_MAX + 2, reads key 0 until the aging pass
\* has run (frequency INT8_MAX + 3 before it), and then puts key 2.
HotAgingThreshold == 2 * INT8_MAX + 5

InitLFUHot ==
  /\ engine = "LFU"
  /\ lfu = LFU_new(2, 1000000, HotAgingThreshold, <<99, 100>>)
  /\ lru = Idle /\ wt = Idle /\ arc = Idle /\ lruk = Idle
  /\ lastOp = NoOp /\ left = HotAgingThreshold + 1 /\ recency = <<>> /\ scen = <<>>
  /\ sketch = Idle /\ adaptive = Idle /\ threads = Idle

NextLFUHot ==
  \/ lastOp.op = "none" /\ LfuPut(1, 1)
  \/ lastOp.op = "put" /\ lastOp.key = 1 /\ LfuPut(0, 1)
  \/ /\ lfu.operationCount < HotAgingThreshold /\ LFU_has(lfu, 0)
     /\ LFU_freqOf(lfu, 1) < INT8_MAX + 2 /\ LfuGet(1)
  \/ /\ lfu.operationCount < HotAgingThreshold
     /\ LFU_freqOf(lfu, 1) = INT8_MAX + 2 /\ LfuGet(0)
  \/ lfu.operationCount = HotAgingThreshold /\ LfuPut(2, 1)

SpecLFUHot == InitLFUHot /\ [][NextLFUHot]_vars

---------------------------------------------------------------------------
(* The ARC engine: XArcLRUpart, XArcLFUpart and XArcCache.                 *)
(* A ghost list is the sequence of its nodes from ghostHead to ghostTail;  *)
(* a ghost node is [key, live], live saying that ghostCache[key] is this   *)
(* node (addToGhost overwrites the entry of a key that is already there,   *)
(* and removeOldestGhost erases by key, so list and index can differ).     *)

GhostKeys(ghost) == {ghost[i].key : i \in {j \in 1..Len(ghost) : ghost[j].live}}

GhostSize(ghost) == Cardinality(GhostKeys(ghost))

GhostLiveIndex(ghost, key) ==
  IF \E i \in 1..Len(ghost) : ghost[i].key = key /\ ghost[i].live
  THEN CHOOSE i \in 1..Len(ghost) : ghost[i].key = key /\ ghost[i].live
  ELSE 0

\* ghostCache.erase(key): the node, if linked, stays linked.
GhostErase(ghost, key) ==
  [i \in 1..Len(ghost) |->
     IF ghost[i].key = key THEN [ghost[i] EXCEPT !.live = FALSE] ELSE ghost[i]]

\* checkGhost's removal: unlink ghostCache[key] and erase the entry.
GhostRemove(ghost, key) == RemoveAt(ghost, GhostLiveIndex(ghost, key))

(* XArcLRUpart.  main: the nodes [key, value, accessCount] from mainHead   *)
(* (most recent) to mainTail; ghost from ghostHead (newest) to ghostTail.  *)

ArcLRU_new(capacity, transformThreshold) ==
  [capacity |-> capacity, ghostCapacity |-> capacity,
   transformThreshold |-> transformThreshold, main |-> <<>>, ghost |-> <<>>]

ArcLRU_has(p, key) == key \in KeysOf(p.main)
ArcLRU_size(p) == Cardinality(KeysOf(p.main))

ArcLRU_moveToFront(main, key) ==
  LET i == IndexOf(main, key) IN <<main[i]>> \o RemoveAt(main, i)

\* removeOldestGhost: unlink ghostTail->prev and erase its key.
ArcLRU_removeOldestGhost(ghost) ==
  IF Len(ghost) = 0 THEN ghost
  ELSE GhostErase(SubSeq(ghost, 1, Len(ghost) - 1), ghost[Len(ghost)].key)

\* addToGhost: link after ghostHead, ghostCache[key] = node.
ArcLRU_addToGhost(ghost, key) ==
  <<[key |-> key, live |-> TRUE]>> \o GhostErase(ghost, key)

\* evictLeastRecent: mainTail->prev moves to the ghost list.  The main list
\* is never empty where the code calls it (size >= capacity > 0).
ArcLRU_evictLeastRecent(p) ==
  IF Len(p.main) = 0 THEN p
  ELSE LET node == p.main[Len(p.main)]
           g == IF GhostSize(p.ghost) >= p.ghostCapacity
                THEN ArcLRU_removeOldestGhost(p.ghost) ELSE p.ghost
       IN [p EXCEPT !.main = SubSeq(p.main, 1, Len(p.main) - 1),
                    !.ghost = ArcLRU_addToGhost(g, node.key)]

ArcLRU_addNewNode(p, key, value) ==
  LET room == IF ArcLRU_size(p) >= p.capacity THEN ArcLRU_evictLeastRecent(p) ELSE p
  IN [room EXCEPT !.main =
        <<[key |-> key, value |-> value, accessCount |-> 1]>> \o @]

ArcLRU_updateExistingNode(p, key, value) ==
  LET i == IndexOf(p.main, key)
  IN [p EXCEPT !.main = ArcLRU_moveToFront([@ EXCEPT ![i].value = value], key)]

\* put returns false without a change when capacity == 0.
ArcLRU_put(p, key, value) ==
  IF p.capacity = 0 THEN p
  ELSE IF ArcLRU_has(p, key) THEN ArcLRU_updateExistingNode(p, key, value)
  ELSE ArcLRU_addNewNode(p, key, value)

\* updateNodeAccess on the node of `key`.
ArcLRU_updateNodeAccess(p, key) ==
  LET moved == ArcLRU_moveToFront(p.main, key)
  IN [p EXCEPT !.main = [moved EXCEPT ![1].accessCount = @ + 1]]

ArcLRU_get(p, key, value) ==
  IF ArcLRU_has(p, key)
  THEN LET q == ArcLRU_updateNodeAccess(p, key)
       IN [c |-> q, hit |-> TRUE, value |-> q.main[1].value,
           shouldTransform |-> q.main[1].accessCount >= p.transformThreshold]
  ELSE [c |-> p, hit |-> FALSE, value |-> value, shouldTransform |-> FALSE]

ArcLRU_inGhost(p, key) == key \in GhostKeys(p.ghost)

ArcLRU_checkGhost(p, key) ==
  IF ArcLRU_inGhost(p, key) THEN [p EXCEPT !.ghost = GhostRemove(@, key)] ELSE p

ArcLRU_increaseCapacity(p) == [p EXCEPT !.capacity = @ + 1]

ArcLRU_canDecrease(p) == p.capacity > 0

ArcLRU_decreaseCapacity(p) ==
  IF ~ArcLRU_canDecrease(p) THEN p
  ELSE LET q == IF ArcLRU_size(p) = p.capacity THEN ArcLRU_evictLeastRecent(p) ELSE p
       IN [q EXCEPT !.capacity = @ - 1]

(* XArcLFUpart.  mainCache: a function from the resident keys to           *)
(* [value, accessCount]; freqMap: the std::map from a frequency to the     *)
(* keys of the nodes listed under it, front first; ghost from ghostHead    *)
(* (oldest) to ghostTail.                                                  *)

ArcLFU_new(capacity, transformThreshold) ==
  [capacity |-> capacity, ghostCapacity |-> capacity,
   transformThreshold |-> transformThreshold, minFreq |-> 0,
   mainCache |-> <<>>, freqMap |-> <<>>, ghost |-> <<>>]

ArcLFU_contain(p, key) == key \in DOMAIN p.mainCache
ArcLFU_size(p) == Cardinality(DOMAIN p.mainCache)

\* freqMap[f], which creates an empty list when there is none.
MapTouch(map, f) ==
  IF f \in DOMAIN map THEN map
  ELSE [g \in DOMAIN map \cup {f} |-> IF g = f THEN <<>> ELSE map[g]]

MapErase(map, f) == [g \in DOMAIN map \ {f} |-> map[g]]

MapSet(map, f, v) == [g \in DOMAIN map \cup {f} |-> IF g = f THEN v ELSE map[g]]

SetMin(S) == CHOOSE x \in S : \A y \in S : x <= y

ArcLFU_updateNodeFreq(p, key) ==
  LET oldFreq == p.mainCache[key].accessCount
      newFreq == oldFreq + 1
      m0 == MapTouch(p.freqMap, oldFreq)
      oldList == SelectSeq(m0[oldFreq], LAMBDA k : k # key)
      emptied == Len(oldList) = 0
      m1 == IF emptied THEN MapErase(m0, oldFreq) ELSE MapSet(m0, oldFreq, oldList)
      m2 == MapSet(m1, newFreq, Append(MapTouch(m1, newFreq)[newFreq], key))
  IN [p EXCEPT !.mainCache[key].accessCount = newFreq,
               !.freqMap = m2,
               !.minFreq = IF emptied /\ p.minFreq = oldFreq THEN newFreq ELSE @]

\* removeOldestGhost: unlink ghostHead->next and erase its key.
ArcLFU_removeOldestGhost(ghost) ==
  IF Len(ghost) = 0 THEN ghost ELSE GhostErase(Tail(ghost), ghost[1].key)

\* addToGhost: link before ghostTail, ghostCache[key] = node.
ArcLFU_addToGhost(ghost, key) ==
  Append(GhostErase(ghost, key), [key |-> key, live |-> TRUE])

ArcLFU_evictLeastFrequentNode(p) ==
  IF DOMAIN p.freqMap = {} THEN p
  ELSE LET m0 == MapTouch(p.freqMap, p.minFreq)
           minFreqList == m0[p.minFreq]
       IN IF Len(minFreqList) = 0 THEN [p EXCEPT !.freqMap = m0]
          ELSE LET key == minFreqList[1]
                   rest == Tail(minFreqList)
                   m1 == IF Len(rest) = 0 THEN MapErase(m0, p.minFreq)
                         ELSE MapSet(m0, p.minFreq, rest)
                   mf == IF Len(rest) = 0 /\ DOMAIN m1 # {}
                         THEN SetMin(DOMAIN m1) ELSE p.minFreq
                   g == IF GhostSize(p.ghost) >= p.ghostCapacity
                        THEN ArcLFU_removeOldestGhost(p.ghost) ELSE p.ghost
               IN [p EXCEPT !.freqMap = m1, !.minFreq = mf,
                            !.ghost = ArcLFU_addToGhost(g, key),
                            !.mainCache = [k \in DOMAIN p.mainCache \ {key} |->
                                             p.mainCache[k]]]

\* addNewNode.  The list of frequency 1 is replaced by an empty one when
\* mainCache.find(1), a lookup of the KEY 1, finds nothing.
ArcLFU_addNewNode(p, key, value) ==
  LET room == IF ArcLFU_size(p) >= p.capacity
              THEN ArcLFU_evictLeastFrequentNode(p) ELSE p
      cache == MapSet(room.mainCache, key, [value |-> value, accessCount |-> 1])
      m0 == IF 1 \notin DOMAIN cache THEN MapSet(room.freqMap, 1, <<>>)
            ELSE MapTouch(room.freqMap, 1)
  IN [room EXCEPT !.mainCache = cache,
                  !.freqMap = MapSet(m0, 1, Append(m0[1], key)),
                  !.minFreq = 1]

ArcLFU_updateExistingNode(p, key, value) ==
  ArcLFU_updateNodeFreq([p EXCEPT !.mainCache[key].value = value], key)

ArcLFU_put(p, key, value) ==
  IF p.capacity = 0 THEN p
  ELSE IF ArcLFU_contain(p, key) THEN ArcLFU_updateExistingNode(p, key, value)
  ELSE ArcLFU_addNewNode(p, key, value)

ArcLFU_get(p, key, value) ==
  IF ArcLFU_contain(p, key)
  THEN [c |-> ArcLFU_updateNodeFreq(p, key), hit |-> TRUE,
        value |-> p.mainCache[key].value]
  ELSE [c |-> p, hit |-> FALSE, value |-> value]

ArcLFU_inGhost(p, key) == key \in GhostKeys(p.ghost)

ArcLFU_checkGhost(p, key) ==
  IF ArcLFU_inGhost(p, key) THEN [p EXCEPT !.ghost = GhostRemove(@, key)] ELSE p

ArcLFU_increaseCapacity(p) == [p EXCEPT !.capacity = @ + 1]

ArcLFU_canDecrease(p) == p.capacity > 0

ArcLFU_decreaseCapacity(p) ==
  IF ~ArcLFU_canDecrease(p) THEN p
  ELSE LET q == IF ArcLFU_size(p) = p.capacity
                THEN ArcLFU_evictLeastFrequentNode(p) ELSE p
       IN [q EXCEPT !.capacity = @ - 1]

(* XArcCache.                                                              *)

ARC_new(capacity, transformThreshold) ==
  [capacity |-> capacity, transformThreshold |-> transformThreshold,
   lfupart |-> ArcLFU_new(capacity, transformThreshold),
   lrupart |-> ArcLRU_new(capacity, transformThreshold)]

ARC_checkGhostCaches(a, key) ==
  IF ArcLFU_inGhost(a.lfupart, key)
  THEN LET f == ArcLFU_checkGhost(a.lfupart, key)
       IN IF ArcLRU_canDecrease(a.lrupart)
          THEN [a EXCEPT !.lrupart = ArcLRU_decreaseCapacity(@),
                         !.lfupart = ArcLFU_increaseCapacity(f)]
          ELSE [a EXCEPT !.lfupart = f]
  ELSE IF ArcLRU_inGhost(a.lrupart, key)
  THEN LET r == ArcLRU_checkGhost(a.lrupart, key)
       IN IF ArcLFU_canDecrease(a.lfupart)
          THEN [a EXCEPT !.lfupart = ArcLFU_decreaseCapacity(@),
                         !.lrupart = ArcLRU_increaseCapacity(r)]
          ELSE [a EXCEPT !.lrupart = r]
  ELSE a

ARC_put(a, key, value) ==
  LET a1 == ARC_checkGhostCaches(a, key)
      inLFU == ArcLFU_contain(a1.lfupart, key)
      a2 == [a1 EXCEPT !.lrupart = ArcLRU_put(@, key, value)]
  IN IF inLFU THEN [a2 EXCEPT !.lfupart = ArcLFU_put(@, key, value)] ELSE a2

\* XArcCache::get that moves the key on promotion: the recency half drops
\* it when the frequency half takes it.
ARC_get_Move(a, key, value) ==
  LET a1 == ARC_checkGhostCaches(a, key)
      r == ArcLRU_get(a1.lrupart, key, value)
      f == ArcLFU_get(a1.lfupart, key, value)
  IN IF r.hit
     THEN [c |-> IF r.shouldTransform
                 THEN [a1 EXCEPT !.lrupart =
                                   [r.c EXCEPT !.main = RemoveAt(@, IndexOf(@, key))],
                                 !.lfupart = ArcLFU_put(@, key, r.value)]
                 ELSE [a1 EXCEPT !.lrupart = r.c],
           hit |-> TRUE, value |-> r.value]
     ELSE [c |-> [a1 EXCEPT !.lfupart = f.c], hit |-> f.hit, value |-> f.value]

ARC_get(a, key, value) ==
  LET a1 == ARC_checkGhostCaches(a, key)
      r == ArcLRU_get(a1.lrupart, key, value)
      f == ArcLFU_get(a1.lfupart, key, value)
  IN IF r.hit
     THEN [c |-> IF r.shouldTransform
                 THEN [a1 EXCEPT !.lrupart = r.c,
                                 !.lfupart = ArcLFU_put(@, key, r.value)]
                 ELSE [a1 EXCEPT !.lrupart = r.c],
           hit |-> TRUE, value |-> r.value]
     ELSE [c |-> [a1 EXCEPT !.lfupart = f.c], hit |-> f.hit, value |-> f.value]

\* |T1| + |T2|, and the keys a get can hit.
ARC_count(a) == ArcLRU_size(a.lrupart) + ArcLFU_size(a.lfupart)
ARC_resident(a) == KeysOf(a.lrupart.main) \cup DOMAIN a.lfupart.mainCache

---------------------------------------------------------------------------
(* The ARC engine's public calls.                                          *)

ArcPut(key, value) ==
  /\ engine = "ARC" /\ left > 0
  /\ arc' = ARC_put(arc, key, value)
  /\ lastOp' = Op("put", key, value, FALSE, DefaultValue,
                  ARC_count(arc), key \in ARC_resident(arc))
  /\ left' = left - 1
  /\ UNCHANGED <<engine, lru, lfu, wt, lruk, recency, scen,
                 sketch, adaptive, threads>>

ArcGet(key) ==
  /\ engine = "ARC" /\ left > 0
  /\ LET r == ARC_get(arc, key, DefaultValue)
     IN /\ arc' = r.c
        /\ lastOp' = Op("get", key, DefaultValue, r.hit, r.value,
                        ARC_count(arc), key \in ARC_resident(arc))
  /\ left' = left - 1
  /\ UNCHANGED <<engine, lru, lfu, wt, lruk, recency, scen,
                 sketch, adaptive, threads>>

\* transformThreshold: the default of XArcCache's constructor.
DefaultTransformThreshold == 2

InitARC ==
  /\ engine = "ARC"
  /\ \E capacity \in Capacities : arc = ARC_new(capacity, DefaultTransformThreshold)
  /\ lru = Idle /\ lfu = Idle /\ wt = Idle /\ lruk = Idle
  /\ lastOp = NoOp /\ left = MaxStepsARC /\ recency = <<>> /\ scen = <<>>
  /\ sketch = Idle /\ adaptive = Idle /\ threads = Idle

NextARC ==
  \/ \E key \in Keys, value \in Values : ArcPut(key, value)
  \/ \E key \in Keys : ArcGet(key)

SpecARC == InitARC /\ [][NextARC]_vars

\* Engines of capacity >= 1 with the default transformThreshold and with the
\* next one, which the first hit of a key does not reach.
ArcThresholds == {DefaultTransformThreshold, DefaultTransformThreshold + 1}

InitARCThresholds ==
  /\ engine = "ARC"
  /\ \E capacity \in 1..MaxCap, transformThreshold \in ArcThresholds :
       arc = ARC_new(capacity, transformThreshold)
  /\ lru = Idle /\ lfu = Idle /\ wt = Idle /\ lruk = Idle
  /\ lastOp = NoOp /\ left = MaxStepsARC /\ recency = <<>> /\ scen = <<>>
  /\ sketch = Idle /\ adaptive = Idle /\ threads = Idle

SpecARCThresholds == InitARCThresholds /\ [][NextARC]_vars

\* Longer runs of one engine of capacity 2, every put with the same value:
\* long enough for a key to sit in a half's main list and in a ghost list.
ArcDeepSteps == 11

ArcDeepRun == [capacity |-> 2, value |-> 1]

InitARCDeep ==
  /\ engine = "ARC"
  /\ arc = ARC_new(ArcDeepRun.capacity, DefaultTransformThreshold)
  /\ lru = Idle /\ lfu = Idle /\ wt = Idle /\ lruk = Idle
  /\ lastOp = NoOp /\ left = ArcDeepSteps /\ recency = <<>> /\ scen = <<>>
  /\ sketch = Idle /\ adaptive = Idle /\ threads = Idle

NextARCDeep ==
  \/ \E key \in Keys : ArcPut(key, ArcDeepRun.value)
  \/ \E key \in Keys : ArcGet(key)

SpecARCDeep == InitARCDeep /\ [][NextARCDeep]_vars

---------------------------------------------------------------------------
(* Two threads calling one XArcCache.  XArcCache::put and get take no      *)
(* lock of their own: a call is a sequence of calls into the two halves.   *)
(* put and get of a half run under that half's mtx; checkGhost, contain,   *)
(* increaseCapacity and decreaseCapacity take no lock.  One step of a      *)
(* thread is one call into a half.  `threads` holds the ARC state when the *)
(* two calls began and, for each thread, its call, the call into a half it *)
(* makes next (pc) and its locals inLFU, hit and value.                    *)

ArcThread(call) ==
  [call |-> call, pc |-> "lfuCheckGhost", inLFU |-> FALSE, hit |-> FALSE,
   value |-> call[3]]

\* Where a call goes once checkGhostCaches has returned.
ArcBody(th) == IF th.call[1] = "put" THEN "lfuContain" ELSE "lruGet"

\* The next call into a half of thread th on the cache a.
ARC_step(a, th) ==
  LET key == th.call[2]
  IN CASE th.pc = "lfuCheckGhost" ->
            [c |-> [a EXCEPT !.lfupart = ArcLFU_checkGhost(@, key)],
             th |-> [th EXCEPT !.pc = IF ArcLFU_inGhost(a.lfupart, key)
                                      THEN "lruDecreaseCapacity"
                                      ELSE "lruCheckGhost"]]
       [] th.pc = "lruDecreaseCapacity" ->
            [c |-> [a EXCEPT !.lrupart = ArcLRU_decreaseCapacity(@)],
             th |-> [th EXCEPT !.pc = IF ArcLRU_canDecrease(a.lrupart)
                                      THEN "lfuIncreaseCapacity"
                                      ELSE ArcBody(th)]]
       [] th.pc = "lfuIncreaseCapacity" ->
            [c |-> [a EXCEPT !.lfupart = ArcLFU_increaseCapacity(@)],
             th |-> [th EXCEPT !.pc = ArcBody(th)]]
       [] th.pc = "lruCheckGhost" ->
            [c |-> [a EXCEPT !.lrupart = ArcLRU_checkGhost(@, key)],
             th |-> [th EXCEPT !.pc = IF ArcLRU_inGhost(a.lrupart, key)
                                      THEN "lfuDecreaseCapacity"
                                      ELSE ArcBody(th)]]
       [] th.pc = "lfuDecreaseCapacity" ->
            [c |-> [a EXCEPT !.lfupart = ArcLFU_decreaseCapacity(@)],
             th |-> [th EXCEPT !.pc = IF ArcLFU_canDecrease(a.lfupart)
                                      THEN "lruIncreaseCapacity"
                                      ELSE ArcBody(th)]]
       [] th.pc = "lruIncreaseCapacity" ->
            [c |-> [a EXCEPT !.lrupart = ArcLRU_increaseCapacity(@)],
             th |-> [th EXCEPT !.pc = ArcBody(th)]]
       [] th.pc = "lfuContain" ->
            [c |-> a,
             th |-> [th EXCEPT !.inLFU = ArcLFU_contain(a.lfupart, key),
                               !.pc = "lruPut"]]
       [] th.pc = "lruPut" ->
            [c |-> [a EXCEPT !.lrupart = ArcLRU_put(@, key, th.value)],
             th |-> [th EXCEPT !.pc = IF th.inLFU THEN "lfuPut" ELSE "done"]]
       [] th.pc = "lfuPut" ->
            [c |-> [a EXCEPT !.lfupart = ArcLFU_put(@, key, th.value)],
             th |-> [th EXCEPT !.pc = "done"]]
       [] th.pc = "lruGet" ->
            LET r == ArcLRU_get(a.lrupart, key, th.value)
            IN [c |-> [a EXCEPT !.lrupart = r.c],
                th |-> [th EXCEPT !.hit = r.hit, !.value = r.value,
                                  !.pc = IF ~r.hit THEN "lfuGet"
                                         ELSE IF r.shouldTransform THEN "lfuPut"
                                         ELSE "done"]]
       [] th.pc = "lfuGet" ->
            LET f == ArcLFU_get(a.lfupart, key, th.value)
            IN [c |-> [a EXCEPT !.lfupart = f.c],
                th |-> [th EXCEPT !.hit = f.hit, !.value = f.value,
                                  !.pc = "done"]]

\* The mutex a call into a half holds, and the members it reads or writes.
ArcLocks(pc) ==
  CASE pc \in {"lruPut", "lruGet"} -> {"lrupart.mtx"}
    [] pc \in {"lfuPut", "lfuGet"} -> {"lfupart.mtx"}
    [] OTHER -> {}

ArcAccess(pc) ==
  CASE pc = "lfuCheckGhost" -> {"lfupart.ghostCache"}
    [] pc = "lruCheckGhost" -> {"lrupart.ghostCache"}
    [] pc = "lfuIncreaseCapacity" -> {"lfupart.capacity"}
    [] pc = "lruIncreaseCapacity" -> {"lrupart.capacity"}
    [] pc = "lfuContain" -> {"lfupart.mainCache"}
    [] pc = "lruGet" -> {"lrupart.mainCache"}
    [] pc = "lfuGet" -> {"lfupart.mainCache"}
    [] pc \in {"lruDecreaseCapacity", "lruPut"} ->
         {"lrupart.capacity", "lrupart.mainCache", "lrupart.ghostCache"}
    [] pc \in {"lfuDecreaseCapacity", "lfuPut"} ->
         {"lfupart.capacity", "lfupart.mainCache", "lfupart.ghostCache"}
    [] OTHER -> {}

\* The calls a thread makes.
ThreadCalls ==
  {<<"put", key, 1>> : key \in Keys} \cup {<<"get", key, DefaultValue>> : key \in Keys}

\* Two threads enter one call each.
ArcFork(call1, call2) ==
  /\ engine = "ARC" /\ threads = Idle /\ left = 0
  /\ threads' = [start |-> arc, t |-> <<ArcThread(call1), ArcThread(call2)>>]
  /\ lastOp' = NoOp
  /\ UNCHANGED <<engine, lru, lfu, wt, arc, lruk, left, recency, scen,
                 sketch, adaptive>>

\* Thread i makes its next call into a half.
ArcStep(i) ==
  /\ engine = "ARC" /\ threads # Idle
  /\ threads.t[i].pc # "done"
  /\ LET r == ARC_step(arc, threads.t[i])
     IN /\ arc' = r.c
        /\ threads' = [threads EXCEPT !.t[i] = r.th]
  /\ UNCHANGED <<engine, lru, lfu, wt, lruk, lastOp, left, recency, scen,
                 sketch, adaptive>>

InitARCThreads ==
  /\ engine = "ARC"
  /\ \E capacity \in 1..MaxCap : arc = ARC_new(capacity, DefaultTransformThreshold)
  /\ lru = Idle /\ lfu = Idle /\ wt = Idle /\ lruk = Idle
  /\ lastOp = NoOp /\ left \in 0..MaxStepsThreads /\ recency = <<>> /\ scen = <<>>
  /\ sketch = Idle /\ adaptive = Idle /\ threads = Idle

NextARCThreads ==
  \/ threads = Idle /\ \E key \in Keys : ArcPut(key, 1)
  \/ threads = Idle /\ \E key \in Keys : ArcGet(key)
  \/ \E call1, call2 \in ThreadCalls : ArcFork(call1, call2)
  \/ \E i \in {1, 2} : ArcStep(i)

SpecARCThreads == InitARCThreads /\ [][NextARCThreads]_vars

\* What a call run alone on the cache a leaves: the cache, the hit flag and
\* the caller's value.
ArcAlone(a, call) ==
  IF call[1] = "put"
  THEN [c |-> ARC_put(a, call[2], call[3]), hit |-> FALSE, value |-> call[3]]
  ELSE ARC_get(a, call[2], call[3])

\* The outcomes of the two calls run one after the other, in either order:
\* the final cache and <<hit, value>> of the first and of the second thread.
ArcSerial(a, call1, call2) ==
  LET x1 == ArcAlone(a, call1)
      x2 == ArcAlone(x1.c, call2)
      y2 == ArcAlone(a, call2)
      y1 == ArcAlone(y2.c, call1)
  IN {<<x2.c, <<x1.hit, x1.value>>, <<x2.hit, x2.value>>>>,
      <<y1.c, <<y1.hit, y1.value>>, <<y2.hit, y2.value>>>>}

---------------------------------------------------------------------------
(* XLRUKCache<Key, Value>: an XLRUCache (the main cache, the base class)   *)
(* plus historyList, an XLRUCache<Key, size_t> of access counts, and       *)
(* historyMap, the values of the keys that are not promoted yet.           *)

LRUK_historyCapacity(capacity) == (capacity * 5) \div 2

LRUK_new(capacity, k) ==
  [main |-> LRU_new(capacity),
   historyList |-> LRU_new(LRUK_historyCapacity(capacity)),
   historyMap |-> <<>>, k |-> k]

\* XLRUKCache::put that leaves the stashed value in historyMap when it
\* promotes the key.
LRUK_put_KeepStash(c, key, value) ==
  LET m == LRU_get(c.main, key, DefaultValue)
      h == LRU_getValue(c.historyList, key)
      historyCount == h.value + 1
      counted == LRU_put(h.c, key, historyCount)
      stored == MapSet(c.historyMap, key, value)
  IN IF m.hit THEN [c EXCEPT !.main = LRU_put(m.c, key, value)]
     ELSE IF historyCount >= c.k
     THEN [c EXCEPT !.historyList = LRU_remove(counted, key),
                    !.historyMap = stored,
                    !.main = LRU_put(m.c, key, stored[key])]
     ELSE [c EXCEPT !.historyList = counted, !.historyMap = stored]

LRUK_put(c, key, value) ==
  LET m == LRU_get(c.main, key, DefaultValue)
      h == LRU_getValue(c.historyList, key)
      historyCount == h.value + 1
      counted == LRU_put(h.c, key, historyCount)
      stored == MapSet(c.historyMap, key, value)
  IN IF m.hit THEN [c EXCEPT !.main = LRU_put(m.c, key, value)]
     ELSE IF historyCount >= c.k
     THEN [c EXCEPT !.historyList = LRU_remove(counted, key),
                    !.historyMap = MapErase(stored, key),
                    !.main = LRU_put(m.c, key, stored[key])]
     ELSE [c EXCEPT !.historyList = counted, !.historyMap = stored]

\* Value get(Key), the lookup that counts accesses and promotes.
LRUK_getValue(c, key) ==
  LET m == LRU_get(c.main, key, DefaultValue)
      h == LRU_getValue(c.historyList, key)
      historycount == h.value + 1
      counted == LRU_put(h.c, key, historycount)
  IN IF m.hit
     THEN [c |-> [c EXCEPT !.main = m.c, !.historyList = counted],
           value |-> m.value]
     ELSE IF historycount >= c.k /\ key \in DOMAIN c.historyMap
     THEN [c |-> [c EXCEPT !.historyList = LRU_remove(counted, key),
                           !.historyMap = MapErase(@, key),
                           !.main = LRU_put(m.c, key, c.historyMap[key])],
           value |-> c.historyMap[key]]
     ELSE [c |-> [c EXCEPT !.historyList = counted], value |-> DefaultValue]

\* bool get(Key, Value&): XLRUKCache does not override it, so it is
\* XLRUCache::get on the main cache.
LRUK_get(c, key, value) ==
  LET m == LRU_get(c.main, key, value)
  IN [c |-> [c EXCEPT !.main = m.c], hit |-> m.hit, value |-> m.value]

---------------------------------------------------------------------------
(* The LRU-K engine's public calls.  `scen` records the calls made on the  *)
(* fresh cache while they are puts, two at most; ScenOff after that.       *)

ScenOff == <<<<-1, -1>>>>

ScenPut(s, key, value) ==
  IF Len(s) = 0 \/ (Len(s) = 1 /\ s # ScenOff) THEN Append(s, <<key, value>>)
  ELSE ScenOff

LrukPut(key, value) ==
  /\ engine = "LRUK" /\ left > 0
  /\ lruk' = LRUK_put(lruk, key, value)
  /\ lastOp' = Op("put", key, value, FALSE, DefaultValue,
                  LRU_size(lruk.main), LRU_has(lruk.main, key))
  /\ scen' = ScenPut(scen, key, value)
  /\ left' = left - 1
  /\ UNCHANGED <<engine, lru, lfu, wt, arc, recency,
                 sketch, adaptive, threads>>

LrukGet(key) ==
  /\ engine = "LRUK" /\ left > 0
  /\ LET r == LRUK_get(lruk, key, DefaultValue)
     IN /\ lruk' = r.c
        /\ lastOp' = Op("get", key, DefaultValue, r.hit, r.value,
                        LRU_size(lruk.main), LRU_has(lruk.main, key))
  /\ scen' = ScenOff
  /\ left' = left - 1
  /\ UNCHANGED <<engine, lru, lfu, wt, arc, recency,
                 sketch, adaptive, threads>>

LrukGetValue(key) ==
  /\ engine = "LRUK" /\ left > 0
  /\ LET r == LRUK_getValue(lruk, key)
     IN /\ lruk' = r.c
        /\ lastOp' = Op("getValue", key, DefaultValue, FALSE, r.value,
                        LRU_size(lruk.main), LRU_has(lruk.main, key))
  /\ scen' = ScenOff
  /\ left' = left - 1
  /\ UNCHANGED <<engine, lru, lfu, wt, arc, recency,
                 sketch, adaptive, threads>>

\* The capacity and the K of the test fixture.
TestCapacity == 20
TestK == 2

InitLRUK ==
  /\ engine = "LRUK"
  /\ \E capacity \in Capacities \cup {TestCapacity} : lruk = LRUK_new(capacity, TestK)
  /\ lru = Idle /\ lfu = Idle /\ wt = Idle /\ arc = Idle
  /\ lastOp = NoOp /\ left = MaxStepsLRUK /\ recency = <<>> /\ scen = <<>>
  /\ sketch = Idle /\ adaptive = Idle /\ threads = Idle

NextLRUK ==
  \/ \E key \in Keys, value \in Values : LrukPut(key, value)
  \/ \E key \in Keys : LrukGet(key)
  \/ \E key \in Keys : LrukGetValue(key)

SpecLRUK == InitLRUK /\ [][NextLRUK]_vars

---------------------------------------------------------------------------
(* Two threads calling one XLRUKCache.  XLRUKCache::put takes no lock for  *)
(* its whole length: it is a sequence of calls into the main cache and     *)
(* historyList, each under that cache's mutex, and of blocks under         *)
(* historyMtx.  One step of a thread is one such call or block.  bool get  *)
(* is XLRUCache::get, one call.  `threads` holds the cache when the two    *)
(* calls began and, for each thread, its call, its next step (pc) and its  *)
(* locals historyCount, hit and value.                                     *)

LrukThread(call) ==
  [call |-> call, pc |-> "mainGet", historyCount |-> 0, hit |-> FALSE,
   value |-> call[3]]

LRUK_step(c, th) ==
  LET key == th.call[2]
  IN CASE th.pc = "mainGet" /\ th.call[1] = "get" ->
            LET m == LRU_get(c.main, key, th.value)
            IN [c |-> [c EXCEPT !.main = m.c],
                th |-> [th EXCEPT !.hit = m.hit, !.value = m.value,
                                  !.pc = "done"]]
       [] th.pc = "mainGet" /\ th.call[1] = "put" ->
            LET m == LRU_get(c.main, key, DefaultValue)
            IN [c |-> [c EXCEPT !.main = m.c],
                th |-> [th EXCEPT !.pc = IF m.hit THEN "mainPut"
                                         ELSE "historyGet"]]
       [] th.pc = "mainPut" ->
            [c |-> [c EXCEPT !.main = LRU_put(@, key, th.value)],
             th |-> [th EXCEPT !.pc = "done"]]
       [] th.pc = "historyGet" ->
            LET h == LRU_getValue(c.historyList, key)
            IN [c |-> [c EXCEPT !.historyList = h.c],
                th |-> [th EXCEPT !.historyCount = h.value + 1,
                                  !.pc = "historyPut"]]
       [] th.pc = "historyPut" ->
            [c |-> [c EXCEPT !.historyList = LRU_put(@, key, th.historyCount)],
             th |-> [th EXCEPT !.pc = "historyMapStore"]]
       [] th.pc = "historyMapStore" ->
            [c |-> [c EXCEPT !.historyMap = MapSet(@, key, th.value)],
             th |-> [th EXCEPT !.pc = IF th.historyCount >= c.k
                                      THEN "historyRemove" ELSE "done"]]
       [] th.pc = "historyRemove" ->
            [c |-> [c EXCEPT !.historyList = LRU_remove(@, key)],
             th |-> [th EXCEPT !.pc = "promote"]]
       [] th.pc = "promote" ->
            [c |-> IF key \in DOMAIN c.historyMap
                   THEN [c EXCEPT !.historyMap = MapErase(@, key),
                                  !.main = LRU_put(@, key, c.historyMap[key])]
                   ELSE c,
             th |-> [th EXCEPT !.pc = "done"]]

LrukFork(call1, call2) ==
  /\ engine = "LRUK" /\ threads = Idle /\ left = 0
  /\ threads' = [start |-> lruk, t |-> <<LrukThread(call1), LrukThread(call2)>>]
  /\ lastOp' = NoOp /\ scen' = <<>>
  /\ UNCHANGED <<engine, lru, lfu, wt, arc, lruk, left, recency,
                 sketch, adaptive>>

LrukStep(i) ==
  /\ engine = "LRUK" /\ threads # Idle
  /\ threads.t[i].pc # "done"
  /\ LET r == LRUK_step(lruk, threads.t[i])
     IN /\ lruk' = r.c
        /\ threads' = [threads EXCEPT !.t[i] = r.th]
  /\ UNCHANGED <<engine, lru, lfu, wt, arc, lastOp, left, recency, scen,
                 sketch, adaptive>>

InitLRUKThreads ==
  /\ engine = "LRUK"
  /\ \E capacity \in 1..MaxCap : lruk = LRUK_new(capacity, TestK)
  /\ lru = Idle /\ lfu = Idle /\ wt = Idle /\ arc = Idle
  /\ lastOp = NoOp /\ left \in 0..MaxStepsThreads /\ recency = <<>> /\ scen = <<>>
  /\ sketch = Idle /\ adaptive = Idle /\ threads = Idle

NextLRUKThreads ==
  \/ threads = Idle /\ \E key \in Keys : LrukPut(key, 1)
  \/ threads = Idle /\ \E key \in Keys : LrukGet(key)
  \/ \E call1, call2 \in ThreadCalls : LrukFork(call1, call2)
  \/ \E i \in {1, 2} : LrukStep(i)

SpecLRUKThreads == InitLRUKThreads /\ [][NextLRUKThreads]_vars

LrukAlone(c, call) ==
  IF call[1] = "put"
  THEN [c |-> LRUK_put(c, call[2], call[3]), hit |-> FALSE, value |-> call[3]]
  ELSE LRUK_get(c, call[2], call[3])

\* The outcomes of the two calls run one after the other, in either order.
LrukSerial(c, call1, call2) ==
  LET x1 == LrukAlone(c, call1)
      x2 == LrukAlone(x1.c, call2)
      y2 == LrukAlone(c, call2)
      y1 == LrukAlone(y2.c, call1)
  IN {<<x2.c, <<x1.hit, x1.value>>, <<x2.hit, x2.value>>>>,
      <<y1.c, <<y1.hit, y1.value>>, <<y2.hit, y2.value>>>>}

---------------------------------------------------------------------------
(* The double arithmetic of evaluateAndSwitchStrategy (IEEE 754 binary64,  *)
(* round to nearest, ties to even).  A value in [0, 2) is a sequence of    *)
(* digits in base 1024: digit 1 is the unit, the DoubleDigits digits after *)
(* it the fraction, 10 bits each.  Bit 1 is the unit and bit f + 1 the     *)
(* fraction bit 2^-f.  A double holds 53 significant bits, so an exact     *)
(* quotient or sum is rounded at the 53rd bit from its leading one.  The   *)
(* digits hold every double of the model exactly: the hit-rates, which are *)
(* 0 or at least 2^-20, and the threshold.                                 *)

DoublePrecision == 53

Pow2 == <<1, 2, 4, 8, 16, 32, 64, 128, 256, 512, 1024>>

DigitBits == Len(Pow2) - 1
DigitBase == Pow2[Len(Pow2)]
DoubleDigits == (DoublePrecision + 27) \div DigitBits

\* The digits of a value as an explicit sequence.
Digits(f) == f \o <<>>

\* The first n fraction digits of r / t, for r < t.
RECURSIVE DivDigits(_, _, _)
DivDigits(r, t, n) ==
  IF n = 0 THEN <<>>
  ELSE <<(DigitBase * r) \div t>> \o DivDigits((DigitBase * r) % t, t, n - 1)

\* The remainder left after n fraction digits of r / t.
RECURSIVE DivRem(_, _, _)
DivRem(r, t, n) == IF n = 0 THEN r ELSE DivRem((DigitBase * r) % t, t, n - 1)

\* The digit that holds bit j, and the weight of bit j in that digit.
DigitOf(j) == IF j = 1 THEN 1 ELSE 2 + ((j - 2) \div DigitBits)
WeightOf(j) == IF j = 1 THEN 1 ELSE Pow2[DigitBits - ((j - 2) % DigitBits)]

BitAt(x, j) == (x[DigitOf(j)] \div WeightOf(j)) % 2

\* The index of the leading one (0 for the value 0).
LeadingOne(x) ==
  IF \A d \in 1..Len(x) : x[d] = 0 THEN 0
  ELSE LET d == CHOOSE e \in 1..Len(x) : x[e] # 0 /\ \A g \in 1..(e - 1) : x[g] = 0
           first == IF d = 1 THEN 1 ELSE 2 + (d - 2) * DigitBits
       IN CHOOSE j \in first..(first + DigitBits - 1) :
            /\ DigitOf(j) = d /\ BitAt(x, j) = 1
            /\ \A i \in first..(j - 1) : BitAt(x, i) = 0

\* The carry into digit d of x + y.
RECURSIVE CarryInto(_, _, _)
CarryInto(x, y, d) ==
  IF d = Len(x) THEN 0
  ELSE (x[d + 1] + y[d + 1] + CarryInto(x, y, d + 1)) \div DigitBase

\* The exact sum of two values (below 2).
ExactSum(x, y) ==
  Digits([d \in 1..Len(x) |->
            IF d = 1 THEN x[d] + y[d] + CarryInto(x, y, d)
            ELSE (x[d] + y[d] + CarryInto(x, y, d)) % DigitBase])

\* x > y.
DoubleGreater(x, y) ==
  \E d \in 1..Len(x) : x[d] > y[d] /\ \A e \in 1..(d - 1) : x[e] = y[e]

\* Rounding of the exact value x, whose leading one is bit p, to a double;
\* `sticky` says that the exact value has bits beyond those of x.
RoundAt(x, sticky, p) ==
  LET last == p + DoublePrecision - 1
      dl == DigitOf(last)
      w == WeightOf(last)
      kept == Digits([d \in 1..Len(x) |->
                 IF d < dl THEN x[d] ELSE IF d = dl THEN x[d] - (x[d] % w) ELSE 0])
      dropped == Digits([d \in 1..Len(x) |->
                    IF d < dl THEN 0 ELSE IF d = dl THEN x[d] % w ELSE x[d]])
      ulp == Digits([d \in 1..Len(x) |-> IF d = dl THEN w ELSE 0])
      half == Digits([d \in 1..Len(x) |->
                 IF d = DigitOf(last + 1) THEN WeightOf(last + 1) ELSE 0])
      up == \/ DoubleGreater(dropped, half)
            \/ dropped = half /\ (sticky \/ BitAt(x, last) = 1)
  IN IF p = 0 \/ last >= 1 + DoubleDigits * DigitBits THEN x
     ELSE IF up THEN ExactSum(kept, ulp) ELSE kept

\* The exact value and its leading one are computed once each.
RoundToDouble(x, sticky) ==
  CHOOSE r \in UNION {{RoundAt(v, sticky, p) : p \in {LeadingOne(v)}} : v \in {x}} :
    TRUE

\* static_cast<double>(a) / b for 0 <= a <= b, b > 0; 0.0 when b is 0.
DoubleQuotient(a, b) ==
  IF b = 0 THEN Digits([d \in 1..(DoubleDigits + 1) |-> 0])
  ELSE RoundToDouble(<<a \div b>> \o DivDigits(a % b, b, DoubleDigits),
                     DivRem(a % b, b, DoubleDigits) # 0)

\* x + y for two doubles given by their digits.
DoubleSum(x, y) ==
  CHOOSE r \in UNION {{RoundToDouble(ExactSum(v, w), FALSE) : v \in {x}} : w \in {y}} :
    TRUE

---------------------------------------------------------------------------
(* XAdaptiveCache<Key, Value>.  State: the four engines, which all take    *)
(* every put and every get, the (hits, total) pair of each, the serving    *)
(* engine currentStrategy (0 LRU, 1 LFU, 2 LFU_AGING, 3 ARC) and           *)
(* evaluationCount.  evaluationCount is a function-local static: it is     *)
(* shared by every XAdaptiveCache<Key, Value> of the process and starts    *)
(* at whatever count earlier instances left.                               *)

EvaluationPeriod == 1000

\* switchThreshold = 0.02: the double nearest to 1/50.
SwitchThreshold == DoubleQuotient(1, 50)

Strategies == 0..3

\* XLFUCache(capacity): maxAvgFreq 1000000, agingThreshold 10000,
\* agingFactor 0.8.
LFU_default(capacity) == LFU_new(capacity, 1000000, 10000, <<4, 5>>)

AD_new(capacity, evaluationCount) ==
  [capacity |-> capacity, currentStrategy |-> 2,
   lruCache |-> LRU_new(capacity),
   lfuCache |-> LFU_default(capacity),
   lfuAgingCache |-> LFU_new(capacity, 8000, 1000, <<1, 2>>),
   arcCache |-> ARC_new(capacity, DefaultTransformThreshold),
   strategyPerformance |-> [i \in Strategies |-> [hits |-> 0, total |-> 0]],
   evaluationCount |-> evaluationCount]

\* put; nd1 and nd2 are the <<order, junk>> of the two LFU engines.
AD_put(a, key, value, nd1, nd2) ==
  [a EXCEPT !.lruCache = LRU_put(@, key, value),
            !.lfuCache = LFU_put(@, key, value, nd1[1], nd1[2]),
            !.lfuAgingCache = LFU_put(@, key, value, nd2[1], nd2[2]),
            !.arcCache = ARC_put(@, key, value)]

\* hitRates: the hit-rate of each strategy, in the order of the enum.
AD_hitRates(a) ==
  <<DoubleQuotient(a.strategyPerformance[0].hits, a.strategyPerformance[0].total),
    DoubleQuotient(a.strategyPerformance[1].hits, a.strategyPerformance[1].total),
    DoubleQuotient(a.strategyPerformance[2].hits, a.strategyPerformance[2].total),
    DoubleQuotient(a.strategyPerformance[3].hits, a.strategyPerformance[3].total)>>

\* The first strategy whose hit-rate no other exceeds.
AD_bestStrategy(hitRates) ==
  CHOOSE i \in Strategies :
    /\ \A j \in Strategies : ~DoubleGreater(hitRates[j + 1], hitRates[i + 1])
    /\ \A j \in 0..(i - 1) : DoubleGreater(hitRates[i + 1], hitRates[j + 1])

\* The strategy serving after an evaluation tick.
AD_switch(currentStrategy, hitRates) ==
  IF \E sum \in {DoubleSum(hitRates[currentStrategy + 1], SwitchThreshold)} :
       DoubleGreater(hitRates[AD_bestStrategy(hitRates) + 1], sum)
  THEN AD_bestStrategy(hitRates)
  ELSE currentStrategy

AD_evaluateAndSwitchStrategy(a) ==
  IF (a.evaluationCount + 1) % EvaluationPeriod # 0
  THEN [a EXCEPT !.evaluationCount = @ + 1]
  ELSE CHOOSE c \in {[a EXCEPT !.evaluationCount = @ + 1,
                               !.currentStrategy = AD_switch(@, hitRates)] :
                     hitRates \in {AD_hitRates(a)}} : TRUE

\* The second half of get with counters that start afresh when the serving
\* engine changes.
AD_served_ResetOnSwitch(a, r) ==
  LET c == AD_evaluateAndSwitchStrategy(
             [a EXCEPT !.lruCache = r[1].c, !.lfuCache = r[2].c,
                       !.lfuAgingCache = r[3].c, !.arcCache = r[4].c,
                       !.strategyPerformance =
                          [i \in Strategies |->
                             [hits |-> @[i].hits + (IF r[i + 1].hit THEN 1 ELSE 0),
                              total |-> @[i].total + 1]]])
  IN [c |-> IF c.currentStrategy = a.currentStrategy THEN c
            ELSE [c EXCEPT !.strategyPerformance =
                             [i \in Strategies |-> [hits |-> 0, total |-> 0]]],
      hit |-> r[a.currentStrategy + 1].hit,
      value |-> r[a.currentStrategy + 1].value]

\* The second half of get: r holds what the four engines answered.
AD_served(a, r) ==
  [c |-> AD_evaluateAndSwitchStrategy(
           [a EXCEPT !.lruCache = r[1].c, !.lfuCache = r[2].c,
                     !.lfuAgingCache = r[3].c, !.arcCache = r[4].c,
                     !.strategyPerformance =
                        [i \in Strategies |->
                           [hits |-> @[i].hits + (IF r[i + 1].hit THEN 1 ELSE 0),
                            total |-> @[i].total + 1]]]),
   hit |-> r[a.currentStrategy + 1].hit,
   value |-> r[a.currentStrategy + 1].value]

\* get(key, value); o1 and o2 are the aging orders of the two LFU engines.
\* Each engine writes into its own value-initialised values[i].
AD_get(a, key, value, o1, o2) ==
  CHOOSE res \in {AD_served(a, r) :
                  r \in {<<LRU_get(a.lruCache, key, DefaultValue),
                           LFU_get(a.lfuCache, key, DefaultValue, o1),
                           LFU_get(a.lfuAgingCache, key, DefaultValue, o2),
                           ARC_get(a.arcCache, key, DefaultValue)>>}} : TRUE

---------------------------------------------------------------------------
(* The coordinator's public calls.  `scen` is the sequence of the calls    *)
(* made so far, <<op, key, value>> each.  For a get lastOp.value is what   *)
(* the caller's variable held before the call, lastOp.out what it holds    *)
(* after it, lastOp.preSize the engine that was serving when the call      *)
(* began and lastOp.preHas whether the call was an evaluation tick.        *)

\* The aging orders of a get(key) on the LFU engine l.
OrdersAtGet(l, key) ==
  IF LFU_has(l, key) THEN OrdersAt(LFU_raise(l, key)) ELSE {<<>>}

\* What the caller's variable can hold when get(key, value) is called.
CallerValues == {DefaultValue, 1}

AdaptivePut(key, value) ==
  /\ engine = "ADAPTIVE" /\ left > 0
  /\ \E j1 \in JunkAt(adaptive.lfuCache, key),
        j2 \in JunkAt(adaptive.lfuAgingCache, key) :
       \E o1 \in OrdersAt(LFU_atAddFreqNum(adaptive.lfuCache, key, value, j1)),
          o2 \in OrdersAt(LFU_atAddFreqNum(adaptive.lfuAgingCache, key, value, j2)) :
         adaptive' = AD_put(adaptive, key, value, <<o1, j1>>, <<o2, j2>>)
  /\ lastOp' = Op("put", key, value, FALSE, DefaultValue,
                  adaptive.currentStrategy, FALSE)
  /\ scen' = Append(scen, <<"put", key, value>>)
  /\ left' = left - 1
  /\ UNCHANGED <<engine, lru, lfu, wt, arc, lruk, recency, sketch, threads>>

AdaptiveGet(key, value) ==
  /\ engine = "ADAPTIVE" /\ left > 0
  /\ \E o1 \in OrdersAtGet(adaptive.lfuCache, key),
        o2 \in OrdersAtGet(adaptive.lfuAgingCache, key) :
       \E r \in {AD_get(adaptive, key, value, o1, o2)} :
          /\ adaptive' = r.c
          /\ lastOp' = Op("get", key, value, r.hit, r.value,
                          adaptive.currentStrategy,
                          (adaptive.evaluationCount + 1) % EvaluationPeriod = 0)
  /\ scen' = Append(scen, <<"get", key, value>>)
  /\ left' = left - 1
  /\ UNCHANGED <<engine, lru, lfu, wt, arc, lruk, recency, sketch, threads>>

\* The counts earlier coordinators can have left in evaluationCount: the
\* first or the third get of this one is an evaluation tick.
EvaluationStarts == {EvaluationPeriod - 1, EvaluationPeriod - 3}

InitAdaptive ==
  /\ engine = "ADAPTIVE"
  /\ \E capacity \in Capacities, count \in EvaluationStarts :
       adaptive = AD_new(capacity, count)
  /\ lru = Idle /\ lfu = Idle /\ wt = Idle /\ arc = Idle /\ lruk = Idle
  /\ lastOp = NoOp /\ left = MaxStepsAdaptive /\ recency = <<>> /\ scen = <<>>
  /\ sketch = Idle /\ threads = Idle

NextAdaptive ==
  \/ \E key \in Keys, value \in Values : AdaptivePut(key, value)
  \/ \E key \in Keys, value \in CallerValues : AdaptiveGet(key, value)

SpecAdaptive == InitAdaptive /\ [][NextAdaptive]_vars

\* One coordinator, the first of its process, driven through exactly one
\* evaluation period: put(0) and `warm` gets of key 0, which hit in every
\* engine; put(1), put(2) and `rounds` rounds of get(x); put(x) with x
\* alternating between 1 and 2; then `cold` gets of key 3, which was never
\* put.  The last get is the EvaluationPeriod-th.
TickRun == [capacity |-> 2, warm |-> 9, rounds |-> 20, cold |-> 971]

TickCalls == 1 + TickRun.warm + 2 + 2 * TickRun.rounds + TickRun.cold

TickCall(pos) ==
  IF pos = 0 THEN <<"put", 0>>
  ELSE IF pos <= TickRun.warm THEN <<"get", 0>>
  ELSE IF pos <= TickRun.warm + 2 THEN <<"put", pos - TickRun.warm>>
  ELSE IF pos < TickRun.warm + 3 + 2 * TickRun.rounds
  THEN LET i == pos - (TickRun.warm + 3)
       IN <<IF i % 2 = 0 THEN "get" ELSE "put", 1 + ((i \div 2) % 2)>>
  ELSE <<"get", 3>>

InitAdaptiveTick ==
  /\ engine = "ADAPTIVE"
  /\ adaptive = AD_new(TickRun.capacity, 0)
  /\ lru = Idle /\ lfu = Idle /\ wt = Idle /\ arc = Idle /\ lruk = Idle
  /\ lastOp = NoOp /\ left = TickCalls /\ recency = <<>> /\ scen = <<>>
  /\ sketch = Idle /\ threads = Idle

NextAdaptiveTick ==
  \/ TickCall(TickCalls - left)[1] = "put"
       /\ AdaptivePut(TickCall(TickCalls - left)[2], 1)
  \/ TickCall(TickCalls - left)[1] = "get"
       /\ AdaptiveGet(TickCall(TickCalls - left)[2], DefaultValue)

SpecAdaptiveTick == InitAdaptiveTick /\ [][NextAdaptiveTick]_vars

---------------------------------------------------------------------------
(* A standalone engine of one of the coordinator's four kinds, fed a       *)
(* sequence of <<op, key, value>> calls.  The LFU kinds can take several   *)
(* courses, so a run yields the set of the states it can end in.           *)

StandaloneNew(kind, capacity) ==
  CASE kind = 0 -> LRU_new(capacity)
    [] kind = 1 -> LFU_default(capacity)
    [] kind = 2 -> LFU_new(capacity, 8000, 1000, <<1, 2>>)
    [] kind = 3 -> ARC_new(capacity, DefaultTransformThreshold)

StandalonePut(kind, s, key, value) ==
  CASE kind = 0 -> {LRU_put(s, key, value)}
    [] kind \in {1, 2} ->
         UNION {{LFU_put(s, key, value, o, j) :
                   o \in OrdersAt(LFU_atAddFreqNum(s, key, value, j))} :
                j \in JunkAt(s, key)}
    [] kind = 3 -> {ARC_put(s, key, value)}

\* The [c, hit, value] records get(key, value) can answer with.
StandaloneGet(kind, s, key, value) ==
  CASE kind = 0 -> {LRU_get(s, key, value)}
    [] kind \in {1, 2} -> {LFU_get(s, key, value, o) : o \in OrdersAtGet(s, key)}
    [] kind = 3 -> {ARC_get(s, key, value)}

RECURSIVE StandaloneRuns(_, _, _)
StandaloneRuns(kind, capacity, calls) ==
  IF calls = <<>> THEN {StandaloneNew(kind, capacity)}
  ELSE LET call == calls[Len(calls)]
           before == StandaloneRuns(kind, capacity,
                                    SubSeq(calls, 1, Len(calls) - 1))
       IN IF call[1] = "put"
          THEN UNION {StandalonePut(kind, s, call[2], call[3]) : s \in before}
          ELSE UNION {{r.c : r \in StandaloneGet(kind, s, call[2], call[3])} :
                      s \in before}

\* The engine of kind i inside the coordinator a.
AD_engine(a, i) ==
  <<a.lruCache, a.lfuCache, a.lfuAgingCache, a.arcCache>>[i + 1]

\* Hit-rates as exact fractions: i's exceeds j's, and exceeds it by more
\* than 1/50.
RateGreater(p, i, j) ==
  IF p[i].total = 0 \/ p[j].total = 0
  THEN p[i].total # 0 /\ p[i].hits > 0 /\ p[j].total = 0
  ELSE p[i].hits * p[j].total > p[j].hits * p[i].total

RateExceeds(p, i, j) ==
  IF p[i].total = 0 \/ p[j].total = 0
  THEN p[i].total # 0 /\ p[j].total = 0 /\ 50 * p[i].hits > p[i].total
  ELSE 50 * (p[i].hits * p[j].total - p[j].hits * p[i].total)
         > p[i].total * p[j].total

RateBest(p) ==
  CHOOSE i \in Strategies :
    /\ \A j \in Strategies : ~RateGreater(p, j, i)
    /\ \A j \in 0..(i - 1) : RateGreater(p, i, j)

---------------------------------------------------------------------------
(* Behaviours of one engine out of several kinds.                          *)

\* An LRU, an LFU or a W-TinyLFU engine.
InitLruLfuWt == InitLRU \/ InitLFU \/ InitWT
NextLruLfuWt == NextLRU \/ NextLFU \/ NextWT
SpecLruLfuWt == InitLruLfuWt /\ [][NextLruLfuWt]_vars

\* An LRU, an LFU, an ARC or a W-TinyLFU engine.
InitAnyEngine == InitLRU \/ InitLFU \/ InitARC \/ InitWT
NextAnyEngine == NextLRU \/ NextLFU \/ NextARC \/ NextWT
SpecAnyEngine == InitAnyEngine /\ [][NextAnyEngine]_vars

\* An LRU or a W-TinyLFU engine, the two that have remove.
InitLruWt == InitLRU \/ InitWT
NextLruWt == NextLRU \/ NextWT
SpecLruWt == InitLruWt /\ [][NextLruWt]_vars

\* The capacity the engine of this behaviour was constructed with.
CapacityOf ==
  CASE engine = "LRU" -> lru.capacity
    [] engine = "LFU" -> lfu.capacity
    [] engine = "WTLFU" -> wt.totalCapacity
    [] engine = "ARC" -> arc.capacity
    [] engine = "LRUK" -> lruk.main.capacity

---------------------------------------------------------------------------
(* The capacity test: an LRU, an LFU or an ARC engine of capacity C is     *)
(* given the keys 0 .. 2C-1 once each, in order, and is then asked for     *)
(* key 0 and for key 2C-1.                                                 *)

\* The LFU engines of the capacity test: the defaults, and an aging pass
\* every second operation.
FillLfuConfigs == {<<1000000, 10000, <<4, 5>>>>, <<1000000, 2, <<4, 5>>>>}

FillLast == 2 * CapacityOf - 1

InitFill ==
  /\ \E capacity \in 1..MaxFillCap :
       \/ /\ engine = "LRU" /\ lru = LRU_new(capacity)
          /\ lfu = Idle /\ arc = Idle
       \/ /\ engine = "LFU" /\ lru = Idle /\ arc = Idle
          /\ \E cfg \in FillLfuConfigs : lfu = LFU_new(capacity, cfg[1], cfg[2], cfg[3])
       \/ /\ engine = "ARC" /\ lru = Idle /\ lfu = Idle
          /\ arc = ARC_new(capacity, DefaultTransformThreshold)
  /\ wt = Idle /\ lruk = Idle
  /\ lastOp = NoOp /\ left = 2 * MaxFillCap + 2 /\ recency = <<>> /\ scen = <<>>
  /\ sketch = Idle /\ adaptive = Idle /\ threads = Idle

FillPut(key, value) == LruPut(key, value) \/ LfuPut(key, value) \/ ArcPut(key, value)

FillGet(key) == LruGet(key) \/ LfuGet(key) \/ ArcGet(key)

NextFill ==
  \/ \E value \in Values :
       \/ lastOp.op = "none" /\ FillPut(0, value)
       \/ lastOp.op = "put" /\ lastOp.key < FillLast /\ FillPut(lastOp.key + 1, value)
  \/ lastOp.op = "put" /\ lastOp.key = FillLast /\ FillGet(0)
  \/ lastOp.op = "get" /\ lastOp.key = 0 /\ FillGet(FillLast)

SpecFill == InitFill /\ [][NextFill]_vars

---------------------------------------------------------------------------
(* Claims about the LRU engine.                                            *)

ValueOf(list, key) == list[IndexOf(list, key)].value

\* C1: an LRU engine of capacity C >= 1 never holds more than C entries when
\* a call returns, and size() never reports more than C.
C1_LruSizeBound ==
  (engine = "LRU" /\ lru.capacity >= 1) =>
    /\ LRU_size(lru) <= lru.capacity
    /\ Len(lru.list) <= lru.capacity
    /\ (lastOp.op = "size" => lastOp.out <= lru.capacity)

\* A put of an absent key into a full LRU engine has returned.
C1_Witness ==
  /\ engine = "LRU" /\ lru.capacity >= 1
  /\ lastOp.op = "put" /\ ~lastOp.preHas /\ lastOp.preSize = lru.capacity
  /\ LRU_size(lru) = lru.capacity

\* C10: a put of an absent key into a full LRU engine evicts exactly the
\* resident key accessed longest ago, keeps every other key with its value
\* and makes the new key resident; a hit or an update evicts nothing.
C10_LruEvictsOldestAccess ==
  [][(engine = "LRU" /\ lru.capacity >= 1) =>
       LET op == lastOp'
           pre == lru.list
           post == lru'.list
       IN /\ (op.op = "put" /\ ~op.preHas /\ op.preSize = lru.capacity) =>
               /\ KeysOf(post) = (KeysOf(pre) \ {recency[1]}) \cup {op.key}
               /\ recency[1] \in KeysOf(pre) /\ recency[1] \notin KeysOf(post)
               /\ \A k \in KeysOf(pre) \ {recency[1]} :
                    ValueOf(post, k) = ValueOf(pre, k)
               /\ ValueOf(post, op.key) = op.value
          /\ ((op.op = "get" /\ op.hit) \/ (op.op = "put" /\ op.preHas)) =>
               /\ KeysOf(post) = KeysOf(pre)
               /\ \A k \in KeysOf(pre) \ {op.key} :
                    ValueOf(post, k) = ValueOf(pre, k)
     ]_vars

\* An evicting put has returned in an engine of capacity 2: key 1, the
\* oldest access, is gone, and keys 0 and 2 are resident.
C10_Witness ==
  /\ engine = "LRU" /\ lru.capacity = 2
  /\ lastOp.op = "put" /\ ~lastOp.preHas /\ lastOp.preSize = 2
  /\ lastOp.key = 2 /\ KeysOf(lru.list) = {0, 2}

---------------------------------------------------------------------------
(* Claims about the LFU engine.                                            *)

\* C2: an LFU engine of capacity C >= 1 never holds more than C entries when
\* a put or get returns, whatever its aging parameters.
C2_LfuSizeBound ==
  (engine = "LFU" /\ lfu.capacity >= 1) => LFU_size(lfu) <= lfu.capacity

\* The keys a step takes out of the LFU engine.
LfuEvicted(pre, post) == LFU_keys(pre) \ LFU_keys(post)

\* `key` is the resident that entered the bucket of the smallest frequency
\* among the residents of `l` first.
LfuIsVictim(l, key) ==
  /\ \A k \in LFU_keys(l) : LFU_freqOf(l, key) <= LFU_freqOf(l, k)
  /\ \A k \in LFU_keys(l) :
       LFU_freqOf(l, k) = LFU_freqOf(l, key) =>
         LFU_liveIndex(l.freqMap[LFU_freqOf(l, key)], key)
           <= LFU_liveIndex(l.freqMap[LFU_freqOf(l, key)], k)

\* C12: an entry that a put evicts from the LFU engine has the smallest
\* frequency among the residents and, among the residents of that frequency,
\* is the one that entered the bucket first.
C12_LfuEvictsMinFreq ==
  [][(engine = "LFU" /\ lastOp'.op = "put") =>
       \A key \in LfuEvicted(lfu, lfu') : LfuIsVictim(lfu, key)]_vars

---------------------------------------------------------------------------
(* Claims about the W-TinyLFU engine.                                      *)

\* C3: a W-TinyLFU engine of total capacity C >= 1, whatever its window
\* ratio, holds at most C entries in Window and Victim together.
C3_WtSizeBound ==
  (engine = "WTLFU" /\ wt.totalCapacity >= 1) => WT_count(wt) <= wt.totalCapacity

\* put(key) finds Window full and offers its oldest entry to a full Victim
\* that has an oldest entry.
WtOffers(w, key) ==
  /\ w.totalCapacity # 0 /\ key \notin WT_resident(w)
  /\ ~SizeLess(LRU_size(w.window), w.windowCapacity) /\ w.window.list # <<>>
  /\ ~SizeLess(LRU_size(w.victim), w.victimCapacity) /\ w.victim.list # <<>>

\* The sketch as ensureVictimCapacity reads it during put(key).
WtSketchAtAdmission(w, key) ==
  LET sk == Sketch_increment(w.sketch, key)
  IN IF (w.operationCount + 1) % DecayPeriod = 0 THEN Sketch_decay(sk) ELSE sk

\* C13: when a put makes Window offer its oldest key kw to a full Victim
\* whose oldest entry is kc, then with estimate(kw) >= estimate(kc) kc leaves
\* Victim and kw is resident in Victim, and with estimate(kw) < estimate(kc)
\* kw is resident in neither Window nor Victim and kc stays in Victim.
C13_WtAdmission ==
  [][\A key \in Keys :
       (engine = "WTLFU" /\ lastOp'.op = "put" /\ lastOp'.key = key
          /\ WtOffers(wt, key)) =>
         LET kw == LRU_getOldestKey(wt.window)
             kc == LRU_getOldestKey(wt.victim)
             sk == WtSketchAtAdmission(wt, key)
         IN IF Sketch_frequency(sk, kw) >= Sketch_frequency(sk, kc)
            THEN /\ kc \notin KeysOf(wt'.victim.list)
                 /\ kw \in KeysOf(wt'.victim.list)
                 /\ kw \notin KeysOf(wt'.window.list)
            ELSE /\ kw \notin WT_resident(wt')
                 /\ kc \in KeysOf(wt'.victim.list)]_vars

\* The engine has admitted one Window key into the full Victim and has
\* turned another one away.
C13_Witness ==
  /\ engine = "WTLFU" /\ lastOp.op = "put" /\ ~lastOp.preHas
  /\ wt.admissionWins >= 1 /\ wt.admissionLosses >= 1
  /\ LRU_size(wt.victim) = wt.victimCapacity

\* C15: the estimate of no key decreases over a call of the sketch other
\* than decay and reset, and no counter ever exceeds 255 or wraps: an
\* increment of a key estimated at 255 leaves it at 255.
C15_SketchMonotone ==
  [][(engine = "SKETCH" /\ lastOp'.op \in {"increment", "frequency"}) =>
       /\ \A k \in SketchKeys :
            /\ Sketch_frequency(sketch', k) >= Sketch_frequency(sketch, k)
            /\ Sketch_frequency(sketch', k) <= CounterMax
       /\ \A i \in 1..sketch.depth : \A x \in DOMAIN sketch.counters[i] :
            /\ sketch'.counters[i][x] >= sketch.counters[i][x]
            /\ sketch'.counters[i][x] <= CounterMax
       /\ lastOp'.out >= lastOp'.preSize]_vars

\* increment was called on a key whose every counter had reached 255, and
\* the estimate is still 255.
C15_Witness ==
  /\ engine = "SKETCH" /\ lastOp.op = "increment"
  /\ lastOp.preSize = CounterMax /\ lastOp.out = CounterMax
  /\ Sketch_frequency(sketch, lastOp.key) = CounterMax

\* C14: on a W-TinyLFU engine of capacity 10 and window ratio 0.1, after
\* the keys 0 .. 99 were put once each, key 7 was accessed 100 times (by put
\* only or by get only) and the fresh key 100 was put, key 7 is resident and
\* get(7) hits.
C14_HotKeySurvives ==
  /\ (engine = "WTLFU" /\ scen # <<>> /\ left = 1) =>
       (HotKeyRun.hot \in WT_resident(wt)
          /\ WT_get(wt, HotKeyRun.hot, DefaultValue).hit)
  /\ (engine = "WTLFU" /\ scen # <<>> /\ left = 0) => lastOp.hit

\* C14, as the engine behaves: when the 100 accesses are puts key 7 is
\* resident after put(100) and get(7) hits; when they are gets key 7, which
\* left Victim during the 100 inserts, is not resident and get(7) misses.
C14_HotKeySurvivesPuts ==
  /\ (engine = "WTLFU" /\ scen # <<>> /\ left = 1) =>
       /\ (HotKeyRun.hot \in WT_resident(wt)) = (scen = <<"put">>)
       /\ WT_get(wt, HotKeyRun.hot, DefaultValue).hit = (scen = <<"put">>)
  /\ (engine = "WTLFU" /\ scen # <<>> /\ left = 0) =>
       lastOp.hit = (scen = <<"put">>)

\* The workload with puts has run to its end: key 7, estimated above 100,
\* was admitted to Victim by put(100) and the final get(7) hit.
C14_Witness ==
  /\ engine = "WTLFU" /\ scen = <<"put">> /\ left = 0
  /\ lastOp.op = "get" /\ lastOp.key = HotKeyRun.hot /\ lastOp.hit
  /\ HotKeyRun.hot \in KeysOf(wt.victim.list)
  /\ Sketch_frequency(wt.sketch, HotKeyRun.hot) > HotKeyRun.accesses

---------------------------------------------------------------------------
(* Claims about several engines.                                           *)

\* What get(key, &v) answers in the current state: <<found, v>>.
AnswerOf(key) ==
  LET r == CASE engine = "LRU" -> LRU_get(lru, key, DefaultValue)
             [] engine = "LFU" ->
                  LFU_get(lfu, key, DefaultValue,
                          CHOOSE o \in Orders(LFU_keys(lfu)) : TRUE)
             [] engine = "WTLFU" -> WT_get(wt, key, DefaultValue)
             [] engine = "ARC" -> ARC_get(arc, key, DefaultValue)
             [] engine = "LRUK" -> LRUK_get(lruk, key, DefaultValue)
  IN <<r.hit, r.value>>

\* The keys with an entry in the engine.
ResidentOf ==
  CASE engine = "LRU" -> KeysOf(lru.list)
    [] engine = "LFU" -> LFU_keys(lfu)
    [] engine = "WTLFU" -> WT_resident(wt)
    [] engine = "ARC" -> ARC_resident(arc)
    [] engine = "LRUK" -> KeysOf(lruk.main.list)

\* C5: in an LRU, LFU or W-TinyLFU engine of capacity >= 1, in whatever
\* state put(k, v) is called (k absent or resident, the same put repeated or
\* not), a get(k) issued right after it returns (true, v).
C5_GetAfterPut ==
  (engine \in {"LRU", "LFU", "WTLFU"} /\ CapacityOf >= 1 /\ lastOp.op = "put") =>
    AnswerOf(lastOp.key) = <<TRUE, lastOp.value>>

\* A put of an absent key into a full LFU engine and a put on a resident key
\* of a W-TinyLFU engine are both followed by a hit.
C5_Witness ==
  /\ lastOp.op = "put" /\ CapacityOf >= 1
  /\ \/ engine = "LFU" /\ ~lastOp.preHas /\ lastOp.preSize = lfu.capacity
     \/ engine = "WTLFU" /\ lastOp.preHas /\ lastOp.preSize = wt.totalCapacity
     \/ engine = "LRU" /\ lastOp.preHas /\ lastOp.value = 2
  /\ AnswerOf(lastOp.key) = <<TRUE, lastOp.value>>

\* C11: after an LRU, LFU or ARC engine of capacity C >= 1 was given 2C
\* distinct keys once each, in order and without a get, a get of the first
\* key misses and a get of the last key hits.
C11_FillEvictsFirstKeepsLast ==
  /\ (lastOp.op = "put" /\ lastOp.key = FillLast) =>
       (AnswerOf(0)[1] = FALSE /\ AnswerOf(FillLast)[1] = TRUE)
  /\ (lastOp.op = "get" /\ lastOp.key = 0) =>
       (~lastOp.hit /\ AnswerOf(FillLast)[1] = TRUE)
  /\ (lastOp.op = "get" /\ lastOp.key = FillLast /\ FillLast # 0) => lastOp.hit

\* C8: an LRU, LFU, ARC or W-TinyLFU engine of capacity 0 never holds an
\* entry, and each of its gets misses.
C8_CapacityZeroNullSink ==
  (engine \in {"LRU", "LFU", "ARC", "WTLFU"} /\ CapacityOf = 0) =>
    /\ ResidentOf = {}
    /\ lastOp.op = "get" => ~lastOp.hit
    /\ \A key \in Keys : AnswerOf(key)[1] = FALSE

\* An ARC engine of capacity 0 has answered a get that follows a put.
C8_Witness ==
  /\ engine = "ARC" /\ CapacityOf = 0 /\ left <= MaxStepsARC - 2
  /\ lastOp.op = "get" /\ ~lastOp.hit /\ ResidentOf = {}

\* The list of entries an engine with remove evicts from, oldest first:
\* Window then Victim for W-TinyLFU.
EntriesOf(l, w) ==
  IF engine = "LRU" THEN l.list ELSE <<w.window.list, w.victim.list>>

WithoutKey(list, key) == SelectSeq(list, LAMBDA n : n.key # key)

EntriesWithout(l, w, key) ==
  IF engine = "LRU" THEN WithoutKey(l.list, key)
  ELSE <<WithoutKey(w.window.list, key), WithoutKey(w.victim.list, key)>>

\* C9: in an LRU or W-TinyLFU engine remove(k) leaves k non-resident and
\* keeps every other entry, its value and the order of the entries; it
\* changes nothing when k is absent.
C9_RemoveFrame ==
  [][\A k \in Keys :
       (engine \in {"LRU", "WTLFU"} /\ lastOp'.op = "remove" /\ lastOp'.key = k) =>
         /\ EntriesOf(lru', wt') = EntriesWithout(lru, wt, k)
         /\ k \notin ResidentOf'
         /\ AnswerOf(k)'[1] = FALSE
         /\ ~lastOp'.preHas => (lru' = lru /\ wt' = wt)]_vars

\* remove has taken the key out of a W-TinyLFU engine that holds others.
C9_Witness ==
  /\ engine = "WTLFU" /\ lastOp.op = "remove" /\ lastOp.preHas
  /\ lastOp.preSize >= 2 /\ WT_count(wt) = lastOp.preSize - 1

---------------------------------------------------------------------------
(* Claims about the ARC engine.                                            *)

\* C4: an ARC engine of capacity C holds at most C value-holding entries,
\* |T1| + |T2| <= C, so a get can hit at most C distinct keys.
C4_ArcSizeBound ==
  engine = "ARC" =>
    /\ ARC_count(arc) <= arc.capacity
    /\ Cardinality(ARC_resident(arc)) <= arc.capacity

\* C6: in an ARC engine of capacity >= 1, a get(k) issued right after
\* put(k, v) returns (true, v).
C6_ArcGetAfterPut ==
  (engine = "ARC" /\ arc.capacity >= 1 /\ lastOp.op = "put") =>
    AnswerOf(lastOp.key) = <<TRUE, lastOp.value>>

\* C16: a put or get of a key held in the ghost list of one half takes the
\* key out of that ghost list and moves one unit of capacity from the other
\* half to that half when the other half's capacity is above 0, and leaves
\* both capacities alone when it is 0; a put or get of a key in no ghost
\* list leaves both capacities alone.
C16_ArcGhostArbitration ==
  [][\A k \in Keys :
       (engine = "ARC" /\ lastOp'.op \in {"put", "get"} /\ lastOp'.key = k) =>
         LET inF == ArcLFU_inGhost(arc.lfupart, k)
             inR == ArcLRU_inGhost(arc.lrupart, k)
             cF == arc.lfupart.capacity
             cR == arc.lrupart.capacity
             same == /\ arc'.lfupart.capacity = cF
                     /\ arc'.lrupart.capacity = cR
         IN /\ inF => /\ ~ArcLFU_inGhost(arc'.lfupart, k)
                      /\ IF cR > 0
                         THEN /\ arc'.lrupart.capacity = cR - 1
                              /\ arc'.lfupart.capacity = cF + 1
                         ELSE same
            /\ inR => /\ ~ArcLRU_inGhost(arc'.lrupart, k)
                      /\ IF cF > 0
                         THEN /\ arc'.lfupart.capacity = cF - 1
                              /\ arc'.lrupart.capacity = cR + 1
                         ELSE same
            /\ (~inF /\ ~inR) => same]_vars

---------------------------------------------------------------------------
(* Claims about the LRU-K engine.                                          *)

\* C7: on a fresh LRU-K engine of capacity 20 and K = 2, after put(1, v1)
\* and put(2, v2) the lookup get(1, &r) returns true with r = v1 and then
\* get(2, &r) returns true with r = v2.
C7_LrukGetAfterFirstPut ==
  (/\ engine = "LRUK" /\ lruk.main.capacity = TestCapacity /\ lruk.k = TestK
   /\ Len(scen) = 2 /\ scen[1][1] = 1 /\ scen[2][1] = 2) =>
    LET r1 == LRUK_get(lruk, 1, DefaultValue)
        r2 == LRUK_get(r1.c, 2, DefaultValue)
    IN /\ r1.hit /\ r1.value = scen[1][2]
       /\ r2.hit /\ r2.value = scen[2][2]

---------------------------------------------------------------------------
(* Claims about the adaptive coordinator.                                  *)

AdaptiveHitsAsServing ==
  engine = "ADAPTIVE" /\ lastOp.op = "get" =>
    \E s \in StandaloneRuns(lastOp.preSize, adaptive.capacity,
                            SubSeq(scen, 1, Len(scen) - 1)) :
      \E r \in StandaloneGet(lastOp.preSize, s, lastOp.key, lastOp.value) :
        r.hit = lastOp.hit /\ (r.hit => r.value = lastOp.out)

\* Every engine inside the coordinator is in a state a standalone engine
\* of its kind reaches on the same calls.
AdaptiveEnginesAsStandalone ==
  engine = "ADAPTIVE" =>
    \A i \in Strategies :
      AD_engine(adaptive, i) \in StandaloneRuns(i, adaptive.capacity, scen)

\* C18: LFU-aging serves first; a put and a get that is not an evaluation
\* tick leave the serving engine alone; an evaluation tick makes the
\* lowest-index engine of the highest hit-rate the serving one exactly when
\* its hit-rate exceeds the serving engine's by more than 1/50; and every
\* get answers with the hit flag, and on a hit the value, of the engine
\* that was serving when it began.
C18_AdaptiveSwitchRule ==
  [][engine = "ADAPTIVE" =>
       /\ scen = <<>> => adaptive.currentStrategy = 2
       /\ lastOp'.op = "put" =>
            adaptive'.currentStrategy = adaptive.currentStrategy
       /\ lastOp'.op = "get" /\ ~lastOp'.preHas =>
            adaptive'.currentStrategy = adaptive.currentStrategy
       /\ lastOp'.op = "get" /\ lastOp'.preHas =>
            LET p == adaptive'.strategyPerformance
                cur == adaptive.currentStrategy
            IN adaptive'.currentStrategy =
                 IF RateExceeds(p, RateBest(p), cur) THEN RateBest(p) ELSE cur
       /\ lastOp'.op = "get" =>
            \E r \in StandaloneGet(adaptive.currentStrategy,
                                   AD_engine(adaptive, adaptive.currentStrategy),
                                   lastOp'.key, lastOp'.value) :
              r.hit = lastOp'.hit /\ (r.hit => r.value = lastOp'.out)]_vars

---------------------------------------------------------------------------
(* Claims about engines called by two threads.                             *)

\* Both calls have returned.
ArcReturned ==
  engine = "ARC" /\ threads # Idle /\ \A i \in {1, 2} : threads.t[i].pc = "done"

\* The cache and the answers of two concurrent calls are those of the two
\* calls run one after the other in some order.
ArcLinearizable ==
  ArcReturned =>
    <<arc, <<threads.t[1].hit, threads.t[1].value>>,
           <<threads.t[2].hit, threads.t[2].value>>>>
      \in ArcSerial(threads.start, threads.t[1].call, threads.t[2].call)

\* The two threads are never about to touch the same member of a half with
\* no mutex in common.
ArcNoUnlockedAccess ==
  engine = "ARC" /\ threads # Idle =>
    \/ ArcAccess(threads.t[1].pc) \cap ArcAccess(threads.t[2].pc) = {}
    \/ ArcLocks(threads.t[1].pc) \cap ArcLocks(threads.t[2].pc) # {}

\* C19: concurrent put and get calls on one ARC cache are atomic: their
\* answers and the final state are those of some sequential order, and the
\* threads never access a half's ghost list, main index or capacity at the
\* same time without a common lock.
C19_ArcThreadSafe == ArcLinearizable /\ ArcNoUnlockedAccess

\* Both calls on the LRU-K cache have returned.
LrukReturned ==
  engine = "LRUK" /\ threads # Idle /\ \A i \in {1, 2} : threads.t[i].pc = "done"

\* The cache and the answers of two concurrent calls are those of the two
\* calls run one after the other in some order.
LrukLinearizable ==
  LrukReturned =>
    <<lruk, <<threads.t[1].hit, threads.t[1].value>>,
            <<threads.t[2].hit, threads.t[2].value>>>>
      \in LrukSerial(threads.start, threads.t[1].call, threads.t[2].call)

\* The key is in neither the main cache nor the history of c.
LrukNewKey(c, key) ==
  /\ ~LRU_has(c.main, key)
  /\ ~LRU_has(c.historyList, key)
  /\ key \notin DOMAIN c.historyMap

\* Two concurrent puts of one new key leave the key in the main cache.
LrukBothPutsCount ==
  /\ LrukReturned
  /\ threads.t[1].call[1] = "put" /\ threads.t[2].call[1] = "put"
  /\ threads.t[1].call[2] = threads.t[2].call[2]
  /\ LrukNewKey(threads.start, threads.t[1].call[2])
  => LRU_has(lruk.main, threads.t[1].call[2])

\* C20: concurrent put and get calls on one LRU-K cache (K = 2) are atomic;
\* when two threads each put the same new key, no history count is lost
\* and the key is resident in the main cache once both have returned, as
\* after two sequential puts.
C20_LrukThreadSafe == LrukLinearizable /\ LrukBothPutsCount

\* Thread i of the W-TinyLFU cache is in a call and cannot go on: its next
\* event is the lock of a mutex another thread holds.
WtBlocked(i) ==
  /\ threads.t[i].running /\ threads.t[i].program # <<>>
  /\ threads.t[i].program[1][1] = "lock"
  /\ threads.owner[threads.t[i].program[1][2]] # 0

\* C21: the W-TinyLFU cache never deadlocks: the threads that are in a call
\* are never all blocked; a thread holds at most mainMutex and one of the
\* other mutexes, mainMutex taken first; and a thread about to take
\* mainMutex holds no mutex.
C21_WtNoDeadlock ==
  engine = "WTLFU" /\ threads # Idle =>
    /\ (\E i \in {1, 2} : threads.t[i].running)
         => \E i \in {1, 2} : threads.t[i].running /\ ~WtBlocked(i)
    /\ \A i \in {1, 2} :
         /\ Len(threads.t[i].held) <= 2
         /\ \A n \in 2..Len(threads.t[i].held) : threads.t[i].held[n] # "mainMutex"
         /\ Len(threads.t[i].held) = 2 => threads.t[i].held[1] = "mainMutex"
         /\ (threads.t[i].program # <<>>
               /\ threads.t[i].program[1] = <<"lock", "mainMutex">>)
              => threads.t[i].held = <<>>

\* A thread inside put, get, remove or reset waits for statsMutex while the
\* other thread holds it.
C21_Witness ==
  /\ engine = "WTLFU" /\ threads # Idle
  /\ \E i, j \in {1, 2} :
       /\ WtBlocked(i) /\ threads.t[i].held = <<"mainMutex">>
       /\ threads.t[i].program[1][2] = "statsMutex"
       /\ threads.t[j].held = <<"statsMutex">>

\* The coordinators a coordinator of the given capacity, the first and
\* only one of its process, can be after the calls.
RECURSIVE AdaptiveAlone(_, _)
AdaptiveAlone(capacity, calls) ==
  IF calls = <<>> THEN {AD_new(capacity, 0)}
  ELSE LET call == calls[Len(calls)]
       IN UNION {IF call[1] = "put"
                 THEN {AD_put(a, call[2], call[3], <<o1, j1>>, <<o2, j2>>) :
                         j1 \in JunkAt(a.lfuCache, call[2]),
                         j2 \in JunkAt(a.lfuAgingCache, call[2]),
                         o1 \in {<<>>}, o2 \in {<<>>}}
                 ELSE {AD_get(a, call[2], call[3], <<>>, <<>>).c}
                 : a \in AdaptiveAlone(capacity, SubSeq(calls, 1, Len(calls) - 1))}

\* C22: a coordinator's evaluation ticks are its own 1000th, 2000th, ...
\* get, and the engine serving after any sequence of its calls is the one
\* that serves after the same calls when no other coordinator is called.
C22_AdaptiveSelfContained ==
  engine = "ADAPTIVE" =>
    /\ (lastOp.op = "get" =>
         (lastOp.preHas <=>
            adaptive.strategyPerformance[0].total % EvaluationPeriod = 0))
    /\ \E a \in AdaptiveAlone(adaptive.capacity, scen) :
         a.currentStrategy = adaptive.currentStrategy

\* The second half of C22 alone.
AdaptiveServesAsAlone ==
  engine = "ADAPTIVE" =>
    \E a \in AdaptiveAlone(adaptive.capacity, scen) :
      a.currentStrategy = adaptive.currentStrategy

---------------------------------------------------------------------------
(* More claims about the LFU engine.                                       *)

\* C23: put(k, v') on a resident key k stores v', raises the frequency of k
\* by exactly one before the aging pass the call may run, and leaves the
\* resident set as it was.
C23_LfuPutResident ==
  [][engine = "LFU" /\ lastOp'.op = "put" /\ lastOp'.preHas =>
       LET k == lastOp'.key
           f == LFU_freqOf(lfu, k)
       IN /\ LFU_keys(lfu') = LFU_keys(lfu)
          /\ LFU_node(lfu', k).value = lastOp'.value
          /\ LFU_freqOf(lfu', k) =
               IF LFU_agingDue(LFU_raise(lfu, k)) THEN LFU_agedFreq(lfu, f + 1)
               ELSE f + 1]_vars

\* A put has replaced the value of a resident key, whose frequency is now 3
\* or more, next to another resident key.
C23_Witness ==
  /\ engine = "LFU" /\ lastOp.op = "put" /\ lastOp.preHas
  /\ LFU_freqOf(lfu, lastOp.key) >= 3
  /\ LFU_node(lfu, lastOp.key).value = 2
  /\ LFU_size(lfu) = 2

\* The states in which the call of this step reaches addFreqNum: none when
\* it does not call it.
LfuAtAddFreqNum ==
  IF lastOp'.op = "put"
  THEN IF lfu.capacity = 0 THEN {}
       ELSE {LFU_atAddFreqNum(lfu, lastOp'.key, lastOp'.value, junk) :
               junk \in JunkAt(lfu, lastOp'.key)}
  ELSE IF LFU_has(lfu, lastOp'.key) THEN {LFU_raise(lfu, lastOp'.key)} ELSE {}

\* The call of this step ran an aging pass.
LfuPassRan == \E l \in LfuAtAddFreqNum : LFU_agingDue(l)

\* The running mean frequency exceeds maxAverageFreq after the access of this
\* step is counted.
LfuMeanExceeded ==
  \E l \in LfuAtAddFreqNum :
    LFU_countAccess(l).curAverageFreq > l.maxAverageFreq

\* The frequency the call of this step gives a key before any aging pass.
LfuFreqBeforePass(key) ==
  IF key # lastOp'.key THEN LFU_freqOf(lfu, key)
  ELSE IF LFU_has(lfu, key) THEN LFU_freqOf(lfu, key) + 1
  ELSE 1

\* Every resident entry has the frequency max(1, floor(f * agingFactor)).
LfuAllAged ==
  \A key \in LFU_keys(lfu') :
    LFU_freqOf(lfu', key) = LFU_agedFreq(lfu, LfuFreqBeforePass(key))

\* C24: with the put and get calls on the engine counted, a call runs an
\* aging pass exactly when the count is a multiple of agingThreshold, as long
\* as the mean frequency stays within maxAverageFreq, and the pass gives
\* every resident entry the frequency max(1, floor(f * agingFactor)).
C24_LfuAgingEveryThreshold ==
  [][engine = "LFU" /\ lastOp'.op \in {"put", "get"} /\ ~LfuMeanExceeded =>
       /\ LfuPassRan <=> (MaxStepsLFU - left') % lfu.agingThreshold = 0
       /\ LfuPassRan => LfuAllAged]_vars

\* The same with the count the code keeps, operationCount: the puts and the
\* gets that hit.
LfuAgingEveryCountedAccess ==
  [][engine = "LFU" /\ lastOp'.op \in {"put", "get"} /\ ~LfuMeanExceeded =>
       /\ LfuPassRan <=> /\ lfu'.operationCount # lfu.operationCount
                         /\ lfu'.operationCount % lfu.agingThreshold = 0
       /\ LfuPassRan => LfuAllAged]_vars

\* C25: when the running mean frequency exceeds maxAverageFreq after an
\* operation, every resident entry's frequency becomes
\* max(1, f - maxAverageFreq / 2).
C25_LfuShiftDownAging ==
  [][engine = "LFU" /\ lastOp'.op \in {"put", "get"} /\ LfuMeanExceeded =>
       \A key \in LFU_keys(lfu') :
         LFU_freqOf(lfu', key) = LFU_shiftedFreq(lfu, LfuFreqBeforePass(key))]_vars

\* What the code does instead: the pass is the proportional one.
LfuMeanRunsProportionalAging ==
  [][engine = "LFU" /\ lastOp'.op \in {"put", "get"} /\ LfuMeanExceeded =>
       LfuPassRan /\ LfuAllAged]_vars

\* Entries a and b are linked in one bucket of l, a nearer to its head.
LfuAhead(l, a, b) ==
  /\ LFU_freqOf(l, a) = LFU_freqOf(l, b)
  /\ LFU_liveIndex(l.freqMap[LFU_freqOf(l, a)], a)
       < LFU_liveIndex(l.freqMap[LFU_freqOf(l, a)], b)

\* C26: an aging pass is a stable re-bucketing: two entries that share a
\* bucket before the pass and share one after it keep their relative order.
C26_LfuAgingStable ==
  [][engine = "LFU" /\ lastOp'.op \in {"put", "get"} /\ LfuPassRan =>
       \E l \in LfuAtAddFreqNum :
         \A a, b \in LFU_keys(l) :
           LfuAhead(l, a, b) /\ LFU_freqOf(lfu', a) = LFU_freqOf(lfu', b)
             => LfuAhead(lfu', a, b)]_vars

\* C27: whenever an entry is resident at the return of a put or a get,
\* minFreq is the smallest frequency of a resident entry, whatever the
\* frequencies the entries have reached.
C27_LfuMinFreqExact ==
  engine = "LFU" /\ lastOp.op \in {"put", "get"} /\ LFU_size(lfu) >= 1 =>
    /\ \E key \in LFU_keys(lfu) : LFU_freqOf(lfu, key) = lfu.minFreq
    /\ \A key \in LFU_keys(lfu) : LFU_freqOf(lfu, key) >= lfu.minFreq

\* The same while every resident frequency is below INT8_MAX.
LfuMinFreqExactBelowInt8Max ==
  /\ engine = "LFU" /\ lastOp.op \in {"put", "get"} /\ LFU_size(lfu) >= 1
  /\ \A key \in LFU_keys(lfu) : LFU_freqOf(lfu, key) < INT8_MAX
  => /\ \E key \in LFU_keys(lfu) : LFU_freqOf(lfu, key) = lfu.minFreq
     /\ \A key \in LFU_keys(lfu) : LFU_freqOf(lfu, key) >= lfu.minFreq

---------------------------------------------------------------------------
(* More claims about the LRU-K engine.                                     *)

\* The access count historyList holds for key: 0 when it holds none.
LRUK_historyCount(c, key) ==
  IF LRU_has(c.historyList, key) THEN ValueOf(c.historyList.list, key) ELSE 0

\* C28: with K = 2, a put of a key that is neither in the main cache nor in
\* the history leaves it out of the main cache; a put of a key that is not in
\* the main cache and whose history count is K - 1 makes it resident in the
\* main cache with the value of this put, and removes it from the history
\* and from the value side table; and whatever the call, a key enters the
\* main cache only when its history count reaches K.
C28_LrukPromotion ==
  [][engine = "LRUK" =>
       LET key == lastOp'.key
           count == LRUK_historyCount(lruk, key)
       IN /\ lastOp'.op = "put" /\ ~LRU_has(lruk.main, key) /\ count = 0
               => ~LRU_has(lruk'.main, key)
          /\ lastOp'.op = "put" /\ ~LRU_has(lruk.main, key) /\ count = lruk.k - 1
               => /\ LRU_has(lruk'.main, key)
                  /\ ValueOf(lruk'.main.list, key) = lastOp'.value
                  /\ ~LRU_has(lruk'.historyList, key)
                  /\ key \notin DOMAIN lruk'.historyMap
          /\ \A k \in Keys :
               ~LRU_has(lruk.main, k) /\ LRU_has(lruk'.main, k)
                 => k = key /\ count + 1 >= lruk.k]_vars

\* The first two calls on the cache were puts of one key with two values,
\* and the key is in the main cache with the second.
C28_Witness ==
  /\ engine = "LRUK" /\ Len(scen) = 2 /\ lastOp.op = "put"
  /\ scen[1][1] = scen[2][1] /\ scen[1][2] # scen[2][2]
  /\ ~lastOp.preHas
  /\ LRU_has(lruk.main, lastOp.key)
  /\ ValueOf(lruk.main.list, lastOp.key) = scen[2][2]

\* C29: a get, of either form, that finds its key in the main cache leaves
\* the history unchanged, and no key is at once resident in the main cache
\* and tracked in the history.
C29_LrukGetMainFirst ==
  [][engine = "LRUK" =>
       /\ lastOp'.op \in {"get", "getValue"} /\ LRU_has(lruk.main, lastOp'.key)
            => /\ lruk'.historyList = lruk.historyList
               /\ lruk'.historyMap = lruk.historyMap
       /\ \A k \in Keys :
            ~(LRU_has(lruk'.main, k) /\ LRU_has(lruk'.historyList, k))]_vars

\* The same for get(key, value) and put alone, as long as no Value get(Key)
\* has found its key in the main cache.
LrukBoolGetMainFirst ==
  [][engine = "LRUK" /\ lastOp'.op \in {"get", "put"}
       /\ (\A k \in Keys : ~(LRU_has(lruk.main, k) /\ LRU_has(lruk.historyList, k))) =>
       /\ lastOp'.op = "get" /\ LRU_has(lruk.main, lastOp'.key)
            => /\ lruk'.historyList = lruk.historyList
               /\ lruk'.historyMap = lruk.historyMap
       /\ \A k \in Keys :
            ~(LRU_has(lruk'.main, k) /\ LRU_has(lruk'.historyList, k))]_vars

---------------------------------------------------------------------------
(* More claims about the W-TinyLFU engine.                                 *)

\* The least integer not below capacity * ratio.
CeilOfProduct(capacity, ratio) ==
  (capacity * ratio[1] + ratio[2] - 1) \div ratio[2]

\* C30: an engine constructed with capacity C >= 2 and a window ratio
\* strictly between 0 and 1 has windowCapacity = max(1, ceil(C * ratio)) and
\* victimCapacity = max(1, C - windowCapacity), which add up to C.
C30_WtSizing ==
  engine = "WTLFU" /\ lastOp.op = "new" /\ scen[1] >= 2
    /\ 0 < scen[2][1] /\ scen[2][1] < scen[2][2] =>
    /\ wt.windowCapacity = Max(1, CeilOfProduct(scen[1], scen[2]))
    /\ wt.victimCapacity = Max(1, scen[1] - wt.windowCapacity)
    /\ wt.windowCapacity + wt.victimCapacity = scen[1]

\* What the constructor computes: the product is rounded down, and Victim
\* gets the capacity less the product rounded down, also when Window is
\* raised from 0 to 1.
WtSizingRoundsDown ==
  engine = "WTLFU" /\ lastOp.op = "new" /\ scen[1] >= 2
    /\ 0 < scen[2][1] /\ scen[2][1] < scen[2][2] =>
    LET floor == (scen[1] * scen[2][1]) \div scen[2][2]
    IN /\ wt.windowCapacity = Max(1, floor)
       /\ wt.victimCapacity = scen[1] - floor
       /\ wt.windowCapacity + wt.victimCapacity =
            IF floor = 0 THEN scen[1] + 1 ELSE scen[1]

---------------------------------------------------------------------------
(* More claims about the ARC engine.                                       *)

\* C31: the capacities of the two halves add up to the total capacity of the
\* engine, at construction and after every ghost arbitration.
C31_ArcCapacitySplit ==
  engine = "ARC" => arc.lrupart.capacity + arc.lfupart.capacity = arc.capacity

\* What the code keeps: the constructor gives each half the total capacity,
\* and an arbitration moves one unit from one half to the other.
ArcCapacitySumIsTwice ==
  engine = "ARC" => arc.lrupart.capacity + arc.lfupart.capacity = 2 * arc.capacity

\* C32: no key is in the ghost list of the recency half and in the ghost
\* list of the frequency half at once.
C32_ArcGhostsDisjoint ==
  engine = "ARC" =>
    GhostKeys(arc.lrupart.ghost) \cap GhostKeys(arc.lfupart.ghost) = {}

\* The engine as the call of this step finds it after checkGhostCaches.
ArcAfterGhostCheck == ARC_checkGhostCaches(arc, lastOp'.key)

\* The get of this step hits its key in the recency half.
ArcHitsRecency ==
  lastOp'.op = "get" /\ ArcLRU_has(ArcAfterGhostCheck.lrupart, lastOp'.key)

\* The access count the recency half holds for the key of this step's get
\* once the get is counted.
ArcCountAtGet ==
  LET main == ArcAfterGhostCheck.lrupart.main
  IN main[IndexOf(main, lastOp'.key)].accessCount + 1

\* The get of this step leaves its key in both halves, the frequency half
\* holding the value of the recency half.
ArcPromoted ==
  LET key == lastOp'.key
  IN /\ ArcLFU_contain(arc'.lfupart, key)
     /\ ArcLRU_has(arc'.lrupart, key)
     /\ arc'.lfupart.mainCache[key].value = ValueOf(arc'.lrupart.main, key)
     /\ arc'.lfupart.mainCache[key].value = lastOp'.out

\* The call of this step brings no key into the frequency half.
ArcNoneEntersFrequency ==
  DOMAIN arc'.lfupart.mainCache \subseteq DOMAIN arc.lfupart.mainCache

GhostLinked(ghost) == {ghost[i].key : i \in 1..Len(ghost)}

\* A ghost list holds no more nodes than ghostCapacity, and its index no
\* more keys.
GhostBounded(ghost, ghostCapacity) ==
  Len(ghost) <= ghostCapacity /\ GhostSize(ghost) <= ghostCapacity

\* An eviction from the recency half as it stands: the evicted key is the
\* newest of the ghost list, and a full ghost list loses its oldest key and
\* no other.
ArcLRU_evictsFifo(p) ==
  Len(p.main) > 0 =>
    LET q == ArcLRU_evictLeastRecent(p)
        key == p.main[Len(p.main)].key
        oldest == p.ghost[Len(p.ghost)].key
    IN /\ q.ghost[1].key = key /\ key \in GhostKeys(q.ghost)
       /\ GhostKeys(q.ghost) =
            IF GhostSize(p.ghost) >= p.ghostCapacity /\ Len(p.ghost) > 0
            THEN (GhostKeys(p.ghost) \ {oldest}) \cup {key}
            ELSE GhostKeys(p.ghost) \cup {key}

\* The same for the frequency half, whose ghost list has its oldest node
\* first.
ArcLFU_evictsFifo(p) ==
  ArcLFU_size(ArcLFU_evictLeastFrequentNode(p)) < ArcLFU_size(p) =>
    LET q == ArcLFU_evictLeastFrequentNode(p)
        key == CHOOSE k \in DOMAIN p.mainCache : k \notin DOMAIN q.mainCache
        oldest == p.ghost[1].key
    IN /\ q.ghost[Len(q.ghost)].key = key /\ key \in GhostKeys(q.ghost)
       /\ GhostKeys(q.ghost) =
            IF GhostSize(p.ghost) >= p.ghostCapacity /\ Len(p.ghost) > 0
            THEN (GhostKeys(p.ghost) \ {oldest}) \cup {key}
            ELSE GhostKeys(p.ghost) \cup {key}

\* C34: the ghost list of each half never holds more keys than the capacity
\* the half was built with; an entry evicted from a half's main list goes to
\* the newest end of that half's ghost list; and a full ghost list drops the
\* key that has been in it longest.
C34_ArcGhostsBoundedFifo ==
  engine = "ARC" =>
    /\ GhostBounded(arc.lrupart.ghost, arc.lrupart.ghostCapacity)
    /\ GhostBounded(arc.lfupart.ghost, arc.lfupart.ghostCapacity)
    /\ ArcLRU_evictsFifo(arc.lrupart)
    /\ ArcLFU_evictsFifo(arc.lfupart)

\* The same while every node linked in a ghost list is the one the ghost
\* index holds for its key.
ArcGhostsBoundedFifoWhileIndexed ==
  /\ engine = "ARC"
  /\ \A i \in 1..Len(arc.lrupart.ghost) : arc.lrupart.ghost[i].live
  /\ \A i \in 1..Len(arc.lfupart.ghost) : arc.lfupart.ghost[i].live
  /\ KeysOf(arc.lrupart.main) \cap GhostKeys(arc.lrupart.ghost) = {}
  /\ DOMAIN arc.lfupart.mainCache \cap GhostKeys(arc.lfupart.ghost) = {}
  => /\ GhostBounded(arc.lrupart.ghost, arc.lrupart.ghostCapacity)
     /\ GhostBounded(arc.lfupart.ghost, arc.lfupart.ghostCapacity)
     /\ ArcLRU_evictsFifo(arc.lrupart)
     /\ ArcLFU_evictsFifo(arc.lfupart)

\* The get of this step admits its key, new to the frequency half, into a
\* frequency half that is at capacity.
ArcAdmitsAtCapacity ==
  LET a1 == ArcAfterGhostCheck
      key == lastOp'.key
  IN /\ ArcHitsRecency /\ ArcCountAtGet >= arc.transformThreshold
     /\ ~ArcLFU_contain(a1.lfupart, key)
     /\ a1.lfupart.capacity >= 1
     /\ ArcLFU_size(a1.lfupart) >= a1.lfupart.capacity

\* Every entry resident in the frequency half p is listed in the bucket of
\* its access count.
ArcLFU_allListed(p) ==
  \A k \in DOMAIN p.mainCache :
    LET f == p.mainCache[k].accessCount
    IN f \in DOMAIN p.freqMap /\ \E i \in 1..Len(p.freqMap[f]) : p.freqMap[f][i] = k

\* C35: a frequency half at capacity that admits a new key evicts exactly one
\* entry, one of the minimum access count among its residents and the first
\* of the bucket of that count, and moves it to its ghost list; and every
\* entry resident in the frequency half is listed in the bucket of its
\* access count.
C35_ArcEvictsLeastFrequent ==
  [][engine = "ARC" =>
       /\ ArcAdmitsAtCapacity =>
            LET p == ArcAfterGhostCheck.lfupart
                evicted == DOMAIN p.mainCache \ DOMAIN arc'.lfupart.mainCache
            IN /\ Cardinality(evicted) = 1
               /\ \A e \in evicted :
                    /\ \A k \in DOMAIN p.mainCache :
                         p.mainCache[e].accessCount <= p.mainCache[k].accessCount
                    /\ p.mainCache[e].accessCount \in DOMAIN p.freqMap
                    /\ p.freqMap[p.mainCache[e].accessCount][1] = e
                    /\ e \in GhostKeys(arc'.lfupart.ghost)
       /\ ArcLFU_allListed(arc'.lfupart)]_vars

---------------------------------------------------------------------------
(* More claims about the adaptive coordinator.                             *)

\* The number of get calls made on the coordinator so far.
AdaptiveGets == Cardinality({i \in 1..Len(scen) : scen[i][1] = "get"})

\* C36: after n get calls on the coordinator the total of each of the four
\* engines is n and its hits are at most its total; a get adds 1 to every
\* total and 0 or 1 to every hits counter, also when it switches the serving
\* engine; and a put changes no counter.
C36_AdaptiveStatistics ==
  [][engine = "ADAPTIVE" =>
       /\ \A i \in Strategies :
            /\ adaptive'.strategyPerformance[i].total = AdaptiveGets'
            /\ adaptive'.strategyPerformance[i].hits
                 <= adaptive'.strategyPerformance[i].total
            /\ adaptive'.strategyPerformance[i].hits
                 >= adaptive.strategyPerformance[i].hits
       /\ lastOp'.op = "get" =>
            \A i \in Strategies :
              /\ adaptive'.strategyPerformance[i].total
                   = adaptive.strategyPerformance[i].total + 1
              /\ adaptive'.strategyPerformance[i].hits
                   - adaptive.strategyPerformance[i].hits \in {0, 1}
       /\ lastOp'.op = "put" =>
            adaptive'.strategyPerformance = adaptive.strategyPerformance]_vars

\* A get that was an evaluation tick has switched the serving engine to one
\* that hit where the engine serving before missed.
C36_Witness ==
  /\ engine = "ADAPTIVE" /\ lastOp.op = "get" /\ lastOp.preHas
  /\ adaptive.currentStrategy # lastOp.preSize
  /\ AdaptiveGets = 1
  /\ adaptive.strategyPerformance[adaptive.currentStrategy] = [hits |-> 1, total |-> 1]
  /\ adaptive.strategyPerformance[lastOp.preSize] = [hits |-> 0, total |-> 1]

---------------------------------------------------------------------------
(* More claims about the W-TinyLFU engine's two sub-caches.                *)

\* C37: no key is resident in Window and in Victim at once; a get or a put
\* of a resident key leaves it in the sub-cache that held it; and a key
\* enters Victim only as the oldest key of a full Window that a put of a
\* non-resident key evicts.
C37_WtExclusiveResidency ==
  [][engine = "WTLFU" =>
       /\ KeysOf(wt'.window.list) \cap KeysOf(wt'.victim.list) = {}
       /\ lastOp'.op \in {"put", "get"} /\ lastOp'.key \in KeysOf(wt.window.list)
            => lastOp'.key \in KeysOf(wt'.window.list)
       /\ lastOp'.op \in {"put", "get"} /\ lastOp'.key \in KeysOf(wt.victim.list)
            => lastOp'.key \in KeysOf(wt'.victim.list)
       /\ \A k \in KeysOf(wt'.victim.list) \ KeysOf(wt.victim.list) :
            /\ lastOp'.op = "put" /\ lastOp'.key \notin WT_resident(wt)
            /\ ~SizeLess(LRU_size(wt.window), wt.windowCapacity)
            /\ k = LRU_getOldestKey(wt.window) /\ k \in KeysOf(wt.window.list)
            /\ k \notin KeysOf(wt'.window.list)]_vars

\* A put of a new key has moved the oldest key of Window into Victim, which
\* held another key, and a get has then hit that key in Victim.
C37_Witness ==
  /\ engine = "WTLFU" /\ lastOp.op = "get" /\ lastOp.hit
  /\ lastOp.key \in KeysOf(wt.victim.list)
  /\ LRU_size(wt.victim) = 2 /\ LRU_size(wt.window) = 1

\* The oldest key of Window loses the admission comparison of put(key)
\* against the oldest key of a full Victim.
WtLosesAdmission(w, key) ==
  /\ WtOffers(w, key)
  /\ Sketch_frequency(WtSketchAtAdmission(w, key), LRU_getOldestKey(w.window))
       < Sketch_frequency(WtSketchAtAdmission(w, key), LRU_getOldestKey(w.victim))

\* C38: a put whose Window evictee loses the admission comparison leaves
\* Victim with the same keys, the same values and the same recency order, so
\* that the candidate that won is still Victim's oldest entry.
C38_WtLostAdmissionFrame ==
  [][engine = "WTLFU" /\ lastOp'.op = "put" /\ WtLosesAdmission(wt, lastOp'.key) =>
       /\ wt'.victim.list = wt.victim.list
       /\ LRU_getOldestKey(wt'.victim) = LRU_getOldestKey(wt.victim)]_vars

\* What the code keeps: the keys and the values of Victim, the candidate
\* having become its most recent entry.
WtLostAdmissionKeepsEntries ==
  [][engine = "WTLFU" /\ lastOp'.op = "put" /\ WtLosesAdmission(wt, lastOp'.key) =>
       /\ wt'.victim.list =
            LRU_moveToMostRecent(wt.victim.list, LRU_getOldestKey(wt.victim))
       /\ wt'.admissionLosses = wt.admissionLosses + 1]_vars

(***************************************************************************)
(* More claims about the ARC engine's halves.                              *)
(***************************************************************************)

\* A half's resident keys and the keys of its ghost index have none in
\* common, and the index holds exactly the keys of the nodes linked in the
\* ghost list, each linked once.
ArcHalfExclusive(mainKeys, ghost) ==
  /\ mainKeys \cap GhostKeys(ghost) = {}
  /\ GhostKeys(ghost) = GhostLinked(ghost)
  /\ Len(ghost) = Cardinality(GhostLinked(ghost))

\* C39: in every reachable state of the ARC engine, within each half no key
\* is both resident and in the half's ghost list, and the half's ghost index
\* holds exactly the keys linked in its ghost list.
C39_ArcMainGhostExclusive ==
  engine = "ARC" =>
    /\ ArcHalfExclusive(KeysOf(arc.lrupart.main), arc.lrupart.ghost)
    /\ ArcHalfExclusive(DOMAIN arc.lfupart.mainCache, arc.lfupart.ghost)

\* What the code keeps: every key of a ghost index is linked in its list, and
\* the frequency half's resident keys are not in its own ghost index.
ArcGhostIndexLinked ==
  engine = "ARC" =>
    /\ GhostKeys(arc.lrupart.ghost) \subseteq GhostLinked(arc.lrupart.ghost)
    /\ GhostKeys(arc.lfupart.ghost) \subseteq GhostLinked(arc.lfupart.ghost)
    /\ DOMAIN arc.lfupart.mainCache \cap GhostKeys(arc.lfupart.ghost) = {}

\* C40: after every put and get of the ARC engine each half holds no more
\* entries than its current capacity, also right after a ghost hit has
\* decreased that capacity.
C40_ArcHalfBound ==
  engine = "ARC" /\ lastOp.op \in {"put", "get"} =>
    /\ ArcLRU_size(arc.lrupart) <= arc.lrupart.capacity
    /\ ArcLFU_size(arc.lfupart) <= arc.lfupart.capacity

\* What the code keeps: the recency half stays within its capacity.
ArcRecencyHalfBound ==
  engine = "ARC" /\ lastOp.op \in {"put", "get"} =>
    ArcLRU_size(arc.lrupart) <= arc.lrupart.capacity

====
